---- MODULE Spec2Model ----
(***************************************************************************)
(* A model of gps/ubx.py (ntpsec/gpsd): the UBX stream framer decode_msg,  *)
(* the message catalog it dispatches to, the decoders that touch the       *)
(* protocol version, and the frame builder make_pkt / checksum.            *)
(*                                                                         *)
(* Conventions.  A byte is an integer 0..255; a bytearray or a text line   *)
(* is a sequence of bytes.  protver and every 'depver' are kept in         *)
(* hundredths (10.0 is 1000, 23.01 is 2301), which is exactly what the     *)
(* "%.2f" comparisons of mon_ver distinguish.  Printed text is a sequence  *)
(* of print records [tag, toks, bytes]; a report (s_payload) is the        *)
(* sequence of the text pieces the code appends, in order, so that         *)
(* "contains" is membership and "empty string" is the empty sequence.      *)
(* An uncaught Python exception ends the call with pc = "raise".           *)
(* ubx.timestamp is 0, as the caller sets it when no time stamps are       *)
(* asked for; the class default None is never compared.  The levels        *)
(* gps.VERB_* and the caller's read loop are not part of gps/ubx.py.       *)
(* A configuration item is the tuple of the table cfgs; None is <<>>.      *)
(***************************************************************************)
EXTENDS Integers, Sequences, FiniteSets, TLC

VARIABLES
    script,      \* history: what the session is given, a command to send or
                 \* the items the device sends, in order
    wire,        \* chunks the device has sent and the caller has not read yet
    out,         \* the argument 'out' of decode_msg: the caller's buffer, or
                 \* the frame gps_send_raw echoes
    pc,          \* where the session is: "cmd", "read", "call", "loop", "ret",
                 \* "raise", "done", or the configuration call about to run
    echo,        \* TRUE while decode_msg runs on behalf of gps_send_raw
    loc,         \* the locals of the running decode_msg call
    printed,     \* standard output so far
    mark,        \* history: the length of printed when the current call began
    ret,         \* the value the last decode_msg call returned
    protver,     \* ubx.protver, in hundredths
    verbosity,   \* ubx.verbosity
    read_only,   \* ubx.read_only
    sent,        \* the frames written to io_handle.ser, in order
    dispatched,  \* history: the UBX frames handed to the catalog, in order
    completed,   \* history: the kinds of frame the current call completed
    calls,       \* history: the number of decode_msg calls so far
    lastdec,     \* history: the decode routine the last dispatch invoked, or ""
    arg,         \* history: the argument of the configuration call the session
                 \* makes: [name], [key], [item] or [nvs]; None if it makes none
    nvs,         \* send_cfg_valset: the entries the loop has not reached yet;
                 \* a command that sends several frames: what it has yet to do
    cfg_item,    \* the item the last cfg_by_name or cfg_by_key returned
    cfg_type,    \* the triple the last item_to_type returned
    result,      \* the value the last call of a module-level helper returned
    todo         \* the commands the session has yet to give

vars == <<script, wire, out, pc, echo, loc, printed, mark, ret, protver,
          verbosity, read_only, sent, dispatched, completed, calls, lastdec,
          arg, nvs, cfg_item, cfg_type, result, todo>>

\* the variables of the configuration and helper calls
cfgvars == <<arg, nvs, cfg_item, cfg_type, result, todo>>

----------------------------------------------------------------------------
\* Bounds of the model.

\* Longest payload of the frames built for every catalog entry.
MaxPayload == 4

\* Most items the device sends in one session.
MaxItems == 2

----------------------------------------------------------------------------
\* Program constants.

\* gps.VERB_*: the verbosity levels of the gps package, in increasing order.
VERB_QUIET == 0
VERB_NONE == 1
VERB_DECODE == 2
VERB_INFO == 3
VERB_RAW == 4

\* ubx.protver = 10.0
DefaultProtver == 1000

Min(a, b) == IF a < b THEN a ELSE b

\* n copies of the byte b
Fill(n, b) == [i \in 1..n |-> b]

\* '%x' % d for one hex digit
HexDigit(d) ==
    <<"0", "1", "2", "3", "4", "5", "6", "7",
      "8", "9", "a", "b", "c", "d", "e", "f">>[d + 1]

\* '%02x' % n, for a byte
Hex2(n) == HexDigit(n \div 16) \o HexDigit(n % 16)

\* '%#x' % n
RECURSIVE HexDigits(_)
HexDigits(n) ==
    IF n < 16 THEN HexDigit(n) ELSE HexDigits(n \div 16) \o HexDigit(n % 16)

HexAlt(n) == "0x" \o HexDigits(n)

\* One print() call: a tag naming the statement, its text pieces, its bytes.
Pr(tag, toks, bytes) == [tag |-> tag, toks |-> toks, bytes |-> bytes]

----------------------------------------------------------------------------
\* The message catalog.

\* ack_ids (ubx.py 3586-3589); each key a message id, depver in hundredths
ack_ids ==
       (0 :> [str |-> "NAK", dec |-> "ack_nak", minlen |-> 2, name |-> "UBX-ACK-NAK"])
    @@ (1 :> [str |-> "ACK", dec |-> "ack_ack", minlen |-> 2, name |-> "UBX-ACK-ACK"])

\* aid_ids (ubx.py 3764-3786); each key a message id, depver in hundredths
aid_ids ==
       (0 :> [str |-> "REQ", dec |-> "aid_req", minlen |-> 0, name |-> "UBX-AID-REQ", depver |-> 2300])
    @@ (1 :> [str |-> "INI", dec |-> "aid_ini", minlen |-> 48, name |-> "UBX-AID-INI", depver |-> 2300])
    @@ (2 :> [str |-> "HUI", dec |-> "aid_hui", minlen |-> 72, name |-> "UBX-AID-HUI", depver |-> 2300])
    @@ (16 :> [str |-> "DATA", dec |-> "aid_data", minlen |-> 0, name |-> "UBX-AID-DATA", depver |-> 2300])
    @@ (48 :> [str |-> "ALM", dec |-> "aid_alm", minlen |-> 1, name |-> "UBX-AID-ALM", depver |-> 2300])
    @@ (49 :> [str |-> "EPH", dec |-> "aid_eph", minlen |-> 1, name |-> "UBX-AID-EPH", depver |-> 2300])
    @@ (50 :> [str |-> "ALPSRV", dec |-> "aid_alpsrv", minlen |-> 8, name |-> "UBX-AID-ALPSRV", depver |-> 2301])
    @@ (51 :> [str |-> "AOP", dec |-> "aid_aop", minlen |-> 1, name |-> "UBX-AID-AOP", depver |-> 2300])
    @@ (80 :> [str |-> "ALP", dec |-> "aid_alp", minlen |-> 1, name |-> "UBX-AID-ALP", depver |-> 2300])

\* cfg_ids (ubx.py 5406-5573); each key a message id, depver in hundredths
cfg_ids ==
       (0 :> [str |-> "PRT", dec |-> "cfg_prt", minlen |-> 1, name |-> "UBX-CFG-PRT", depver |-> 2301])
    @@ (1 :> [str |-> "MSG", dec |-> "cfg_msg", minlen |-> 2, name |-> "UBX-CFG-MSG", depver |-> 2301])
    @@ (2 :> [str |-> "INF", dec |-> "cfg_inf", minlen |-> 1, name |-> "UBX-CFG-INF", depver |-> 2301])
    @@ (4 :> [str |-> "RST", dec |-> "cfg_rst", minlen |-> 4, name |-> "UBX-CFG-RST"])
    @@ (6 :> [str |-> "DAT", dec |-> "cfg_dat", minlen |-> 2, name |-> "UBX-CFG-DAT", depver |-> 2301])
    @@ (7 :> [str |-> "TP", dec |-> "cfg_tp", minlen |-> 20, name |-> "UBX-CFG-TP"])
    @@ (8 :> [str |-> "RATE", dec |-> "cfg_rate", minlen |-> 6, name |-> "UBX-CFG-RATE", depver |-> 2301])
    @@ (9 :> [str |-> "CFG", dec |-> "cfg_cfg", minlen |-> 12, name |-> "UBX-CFG-CFG", depver |-> 2800])
    @@ (14 :> [str |-> "FXM", dec |-> "cfg_fxn", minlen |-> 36, name |-> "UBX-CFG-FXM"])
    @@ (17 :> [str |-> "RXM", dec |-> "cfg_rxm", minlen |-> 2, name |-> "UBX-CFG-RXM"])
    @@ (18 :> [str |-> "EKF", minlen |-> 16, name |-> "UBX-CFG-EKF"])
    @@ (19 :> [str |-> "ANT", dec |-> "cfg_ant", minlen |-> 4, name |-> "UBX-CFG-ANT", depver |-> 2301])
    @@ (22 :> [str |-> "SBAS", dec |-> "cfg_sbas", minlen |-> 8, name |-> "UBX-CFG-SBAS"])
    @@ (23 :> [str |-> "NMEA", dec |-> "cfg_nmea", minlen |-> 4, name |-> "UBX-CFG-NMEA", depver |-> 2301])
    @@ (27 :> [str |-> "USB", dec |-> "cfg_usb", minlen |-> 108, name |-> "UBX-CFG-USB", depver |-> 2301])
    @@ (29 :> [str |-> "TMODE", dec |-> "cfg_tmode", minlen |-> 28, name |-> "UBX-CFG-TMODE", depver |-> 1300])
    @@ (30 :> [str |-> "ODO", dec |-> "cfg_odo", minlen |-> 20, name |-> "UBX-CFG-ODO", depver |-> 2301])
    @@ (34 :> [str |-> "NVS", dec |-> "cfg_nvs", minlen |-> 13, name |-> "UBX-CFG-NVS"])
    @@ (35 :> [str |-> "NAVX5", dec |-> "cfg_navx5", minlen |-> 20, name |-> "UBX-CFG-NAVX5", depver |-> 2301])
    @@ (36 :> [str |-> "NAV5", dec |-> "cfg_nav5", minlen |-> 36, name |-> "UBX-CFG-NAV5", depver |-> 2301])
    @@ (41 :> [str |-> "ESFGWT", minlen |-> 44, name |-> "UBX-CFG-ESFGWT"])
    @@ (49 :> [str |-> "TP5", dec |-> "cfg_tp5", minlen |-> 1, name |-> "UBX-CFG-TP5", depver |-> 2700])
    @@ (50 :> [str |-> "PM", dec |-> "cfg_pm", minlen |-> 24, name |-> "UBX-CFG-PM"])
    @@ (52 :> [str |-> "RINV", dec |-> "cfg_rinv", minlen |-> 1, name |-> "UBX-CFG-RINV", depver |-> 2301])
    @@ (57 :> [str |-> "ITFM", dec |-> "cfg_itfm", minlen |-> 8, name |-> "UBX-CFG-ITFM", depver |-> 2301])
    @@ (59 :> [str |-> "PM2", dec |-> "cfg_pm2", minlen |-> 44, name |-> "UBX-CFG-PM2", depver |-> 2301])
    @@ (61 :> [str |-> "TMODE2", dec |-> "cfg_tmode2", minlen |-> 28, name |-> "UBX-CFG-TMODE2"])
    @@ (62 :> [str |-> "GNSS", dec |-> "cfg_gnss", minlen |-> 4, name |-> "UBX-CFG-GNSS", depver |-> 2301])
    @@ (65 :> [str |-> "OTP", minlen |-> 12, name |-> "UBX-CFG-OTP"])
    @@ (71 :> [str |-> "LOGFILTER", dec |-> "cfg_logfilter", minlen |-> 12, name |-> "UBX-CFG-LOGFILTER", depver |-> 2301])
    @@ (76 :> [str |-> "ESFA", dec |-> "cfg_esfa", minlen |-> 20, name |-> "UBX-CFG-ESFA"])
    @@ (77 :> [str |-> "ESFG", dec |-> "cfg_esfg", minlen |-> 20, name |-> "UBX-CFG-ESFG"])
    @@ (83 :> [str |-> "TXSLOT", minlen |-> 2, name |-> "UBX-CFG-TXSLOT"])
    @@ (86 :> [str |-> "ESFALG", dec |-> "cfg_esfalg", minlen |-> 12, name |-> "UBX-CFG-ESFALG"])
    @@ (87 :> [str |-> "PWR", dec |-> "cfg_pwr", minlen |-> 8, name |-> "UBX-CFG-PWR", depver |-> 1700])
    @@ (92 :> [str |-> "HNR", dec |-> "cfg_hnr", minlen |-> 4, name |-> "UBX-CFG-HNR"])
    @@ (96 :> [str |-> "ESRC", dec |-> "cfg_esrc", minlen |-> 4, name |-> "UBX-CFG-ESRC"])
    @@ (97 :> [str |-> "DOSC", dec |-> "cfg_dosc", minlen |-> 4, name |-> "UBX-CFG-DOSC"])
    @@ (98 :> [str |-> "SMGR", dec |-> "cfg_smgr", minlen |-> 20, name |-> "UBX-CFG-SMGR"])
    @@ (100 :> [str |-> "SPT", minlen |-> 12, name |-> "UBX-CFG-SPT"])
    @@ (105 :> [str |-> "GEOFENCE", dec |-> "cfg_geofence", minlen |-> 8, name |-> "UBX-CFG-GEOFENCE", depver |-> 2301])
    @@ (112 :> [str |-> "DGNSS", dec |-> "cfg_dgnss", minlen |-> 4, name |-> "UBX-CFG-DGNSS"])
    @@ (113 :> [str |-> "TMODE3", dec |-> "cfg_tmode3", minlen |-> 40, name |-> "UBX-CFG-TMODE3"])
    @@ (130 :> [str |-> "ESFWT", dec |-> "cfg_esfwt", minlen |-> 32, name |-> "UBX-CFG-ESFWT"])
    @@ (132 :> [str |-> "FIXSEED", dec |-> "cfg_fixseed", minlen |-> 12, name |-> "UBX-CFG-FIXSEED"])
    @@ (133 :> [str |-> "DYNSEED", dec |-> "cfg_dynseed", minlen |-> 12, name |-> "UBX-CFG-DYNSEED"])
    @@ (134 :> [str |-> "PMS", dec |-> "cfg_pms", minlen |-> 8, name |-> "UBX-CFG-PMS"])
    @@ (136 :> [str |-> "SENIF", minlen |-> 6, name |-> "UBX-CFG-SENIF"])
    @@ (138 :> [str |-> "VALSET", dec |-> "cfg_valset", minlen |-> 4, name |-> "UBX-CFG-VALSET"])
    @@ (139 :> [str |-> "VALGET", dec |-> "cfg_valget", minlen |-> 4, name |-> "UBX-CFG-VALGET"])
    @@ (140 :> [str |-> "VALDEL", dec |-> "cfg_valdel", minlen |-> 4, name |-> "UBX-CFG-VALDEL"])
    @@ (141 :> [str |-> "SLAS", dec |-> "cfg_slas", minlen |-> 4, name |-> "UBX-CFG-SLAS"])
    @@ (147 :> [str |-> "BATCH", dec |-> "cfg_batch", minlen |-> 8, name |-> "UBX-CFG-BATCH"])
    @@ (164 :> [str |-> "OTP", minlen |-> 12, name |-> "UBX-CFG-OTP"])

\* esf_ids (ubx.py 5786-5800); each key a message id, depver in hundredths
esf_ids ==
       (2 :> [str |-> "MEAS", dec |-> "esf_meas", minlen |-> 8, name |-> "UBX-ESF-MEAS"])
    @@ (3 :> [str |-> "RAW", dec |-> "esf_raw", minlen |-> 4, name |-> "UBX-ESF-RAW"])
    @@ (4 :> [str |-> "CAL", minlen |-> 12, name |-> "UBX-ESF-CAL"])
    @@ (16 :> [str |-> "STATUS", dec |-> "esf_status", minlen |-> 16, name |-> "UBX-ESF-STATUS"])
    @@ (19 :> [str |-> "RESETALG", minlen |-> 0, name |-> "UBX-ESF-RESETALG"])
    @@ (20 :> [str |-> "ALG", dec |-> "esf_alg", minlen |-> 16, name |-> "UBX-ESF-ALG"])
    @@ (21 :> [str |-> "INS", dec |-> "esf_ins", minlen |-> 16, name |-> "UBX-ESF-INS"])

\* hnr_ids (ubx.py 5886-5892); each key a message id, depver in hundredths
hnr_ids ==
       (0 :> [str |-> "PVT", dec |-> "hnr_pvt", minlen |-> 72, name |-> "UBX-HNR-PVT"])
    @@ (1 :> [str |-> "ATT", dec |-> "hnr_att", minlen |-> 32, name |-> "UBX-HNR-ATT"])
    @@ (2 :> [str |-> "INS", dec |-> "hnr_ins", minlen |-> 36, name |-> "UBX-HNR-INS"])

\* inf_ids (ubx.py 5914-5924); each key a message id, depver in hundredths
inf_ids ==
       (0 :> [str |-> "ERROR", dec |-> "inf_error", minlen |-> 0, name |-> "UBX-INF-ERROR"])
    @@ (1 :> [str |-> "WARNING", dec |-> "inf_warning", minlen |-> 0, name |-> "UBX-INF-WARNING"])
    @@ (2 :> [str |-> "NOTICE", dec |-> "inf_notice", minlen |-> 0, name |-> "UBX-INF-NOTICE"])
    @@ (3 :> [str |-> "TEST", dec |-> "inf_test", minlen |-> 0, name |-> "UBX-INF-TEST"])
    @@ (4 :> [str |-> "DEBUG", dec |-> "inf_debug", minlen |-> 0, name |-> "UBX-INF-DEBUG"])

\* log_ids (ubx.py 6180-6207); each key a message id, depver in hundredths
log_ids ==
       (3 :> [str |-> "ERASE", dec |-> "log_erase", minlen |-> 0, name |-> "UBX-LOG-ERASE"])
    @@ (4 :> [str |-> "STRING", dec |-> "log_string", minlen |-> 0, name |-> "UBX-LOG-STRING"])
    @@ (7 :> [str |-> "CREATE", dec |-> "log_create", minlen |-> 8, name |-> "UBX-LOG-CREATE"])
    @@ (8 :> [str |-> "INFO", dec |-> "log_info", minlen |-> 48, name |-> "UBX-LOG-INFO"])
    @@ (9 :> [str |-> "RETRIEVE", dec |-> "log_retrieve", minlen |-> 12, name |-> "UBX-LOG-RETRIEVE"])
    @@ (11 :> [str |-> "RETRIEVEPOS", dec |-> "log_retrievepos", minlen |-> 40, name |-> "UBX-LOG-RETRIEVEPOS"])
    @@ (13 :> [str |-> "RETRIEVESTRING", dec |-> "log_retrievestring", minlen |-> 16, name |-> "UBX-LOG-RETRIEVESTRING"])
    @@ (14 :> [str |-> "FINDTIME", dec |-> "log_findtime", minlen |-> 8, name |-> "UBX-LOG-FINDTIME"])
    @@ (15 :> [str |-> "RETRIEVEPOSEXTRA", dec |-> "log_retrieveposextra", minlen |-> 32, name |-> "UBX-LOG-RETRIEVEPOSEXTRA"])
    @@ (16 :> [str |-> "RETRIEVEBATCH", dec |-> "log_retrievebatch", minlen |-> 2, name |-> "UBX-LOG-RETRIEVEBATCH"])
    @@ (17 :> [str |-> "BATCH", dec |-> "log_batch", minlen |-> 100, name |-> "UBX-LOG-BATCH"])

\* mga_ids (ubx.py 6284-6304); each key a message id, depver in hundredths
mga_ids ==
       (0 :> [str |-> "GPS", minlen |-> 16, name |-> "UBX-MGA-GPS"])
    @@ (2 :> [str |-> "GAL", minlen |-> 12, name |-> "UBX-MGA-GAL"])
    @@ (3 :> [str |-> "BDS", minlen |-> 16, name |-> "UBX-MGA-BDS"])
    @@ (5 :> [str |-> "QZSS", minlen |-> 12, name |-> "UBX-MGA-QZSS"])
    @@ (6 :> [str |-> "GLO", minlen |-> 20, name |-> "UBX-MGA-GLO"])
    @@ (16 :> [str |-> "SF", dec |-> "mga_sf", minlen |-> 96, name |-> "UBX-MGA-SF"])
    @@ (32 :> [str |-> "ANO", dec |-> "mga_ano", minlen |-> 76, name |-> "UBX-MGA-ANO"])
    @@ (33 :> [str |-> "FLASH", minlen |-> 2, name |-> "UBX-MGA-FLASH"])
    @@ (64 :> [str |-> "INI", minlen |-> 12, name |-> "UBX-MGA-INI"])
    @@ (96 :> [str |-> "ACK", dec |-> "mga_ack", minlen |-> 8, name |-> "UBX-MGA-ACK"])
    @@ (128 :> [str |-> "DBD", dec |-> "mga_dbd", minlen |-> 12, name |-> "UBX-MGA-DBD"])

\* mon_ids (ubx.py 6980-7020); each key a message id, depver in hundredths
mon_ids ==
       (2 :> [str |-> "IO", dec |-> "mon_io", minlen |-> 20, name |-> "UBX-MON-IO", depver |-> 2900])
    @@ (4 :> [str |-> "VER", dec |-> "mon_ver", minlen |-> 40, name |-> "UBX-MON-VER"])
    @@ (6 :> [str |-> "MSGPP", dec |-> "mon_msgpp", minlen |-> 120, name |-> "UBX-MON-MSGPP", depver |-> 2900])
    @@ (7 :> [str |-> "RXBUF", dec |-> "mon_rxbuf", minlen |-> 24, name |-> "UBX-MON-RXBUF", depver |-> 2900])
    @@ (8 :> [str |-> "TXBUF", dec |-> "mon_txbuf", minlen |-> 28, name |-> "UBX-MON-TXBUF", depver |-> 2900])
    @@ (9 :> [str |-> "HW", dec |-> "mon_hw", minlen |-> 60, name |-> "UBX-MON-HW"])
    @@ (11 :> [str |-> "HW2", dec |-> "mon_hw2", minlen |-> 28, name |-> "UBX-MON-HW2", depver |-> 2900])
    @@ (33 :> [str |-> "RXR", dec |-> "mon_rxr", minlen |-> 1, name |-> "UBX-MON-RXR"])
    @@ (39 :> [str |-> "PATCH", dec |-> "mon_patch", minlen |-> 4, name |-> "UBX-MON-PATCH"])
    @@ (40 :> [str |-> "GNSS", dec |-> "mon_gnss", minlen |-> 8, name |-> "UBX-MON-GNSS"])
    @@ (46 :> [str |-> "SMGR", dec |-> "mon_smgr", minlen |-> 16, name |-> "UBX-MON-SMGR"])
    @@ (47 :> [str |-> "SPT", minlen |-> 4, name |-> "UBX-MON-SPT"])
    @@ (49 :> [str |-> "SPAN", dec |-> "mon_span", minlen |-> 4, name |-> "UBX-MON-SPAN"])
    @@ (50 :> [str |-> "BATCH", dec |-> "mon_batch", minlen |-> 12, name |-> "UBX-MON-BATCH"])
    @@ (54 :> [str |-> "COMMS", dec |-> "mon_comms", minlen |-> 8, name |-> "UBX-MON-COMMS"])
    @@ (55 :> [str |-> "HW3", dec |-> "mon_hw3", minlen |-> 22, name |-> "UBX-MON-HW3"])
    @@ (56 :> [str |-> "RF", dec |-> "mon_rf", minlen |-> 4, name |-> "UBX-MON-RF"])
    @@ (57 :> [str |-> "SYS", dec |-> "mon_sys", minlen |-> 24, name |-> "UBX-MON-SYS"])
    @@ (59 :> [str |-> "POST", dec |-> "mon_post", minlen |-> 12, name |-> "UBX-MON-POST"])

\* nav_ids (ubx.py 8093-8184); each key a message id, depver in hundredths
nav_ids ==
       (1 :> [str |-> "POSECEF", dec |-> "nav_posecef", minlen |-> 20, name |-> "UBX-NAV-POSECEF"])
    @@ (2 :> [str |-> "POSLLH", dec |-> "nav_posllh", minlen |-> 20, name |-> "UBX-NAV-POSLLH"])
    @@ (3 :> [str |-> "STATUS", dec |-> "nav_status", minlen |-> 16, name |-> "UBX-NAV-STATUS"])
    @@ (4 :> [str |-> "DOP", dec |-> "nav_dop", minlen |-> 18, name |-> "UBX-NAV-DOP"])
    @@ (5 :> [str |-> "ATT", dec |-> "nav_att", minlen |-> 32, name |-> "UBX-NAV-ATT"])
    @@ (6 :> [str |-> "SOL", dec |-> "nav_sol", minlen |-> 52, name |-> "UBX-NAV-SOL"])
    @@ (7 :> [str |-> "PVT", dec |-> "nav_pvt", minlen |-> 84, name |-> "UBX-NAV-PVT"])
    @@ (9 :> [str |-> "ODO", dec |-> "nav_odo", minlen |-> 20, name |-> "UBX-NAV-ODO"])
    @@ (16 :> [str |-> "RESETODO", dec |-> "nav_resetodo", minlen |-> 0, name |-> "UBX-NAV-RESETODO"])
    @@ (17 :> [str |-> "VELECEF", dec |-> "nav_velecef", minlen |-> 20, name |-> "UBX-NAV-VELECEF"])
    @@ (18 :> [str |-> "VELNED", dec |-> "nav_velned", minlen |-> 36, name |-> "UBX-NAV-VELNED"])
    @@ (19 :> [str |-> "HPPOSECEF", dec |-> "nav_hpposecef", minlen |-> 28, name |-> "UBX-NAV-HPPOSECEF"])
    @@ (20 :> [str |-> "HPPOSLLH", dec |-> "nav_hpposllh", minlen |-> 36, name |-> "UBX-NAV-HPPOSLLH"])
    @@ (23 :> [str |-> "PVAT", dec |-> "nav_pvat", minlen |-> 116, name |-> "UBX-NAV-PVAT"])
    @@ (32 :> [str |-> "TIMEGPS", dec |-> "nav_timegps", minlen |-> 16, name |-> "UBX-NAV-TIMEGPS"])
    @@ (33 :> [str |-> "TIMEUTC", dec |-> "nav_timeutc", minlen |-> 20, name |-> "UBX-NAV-TIMEUTC"])
    @@ (34 :> [str |-> "CLOCK", dec |-> "nav_clock", minlen |-> 20, name |-> "UBX-NAV-CLOCK"])
    @@ (35 :> [str |-> "TIMEGLO", dec |-> "nav_timeglo", minlen |-> 20, name |-> "UBX-NAV-TIMEGLO"])
    @@ (36 :> [str |-> "TIMEBDS", dec |-> "nav_timebds", minlen |-> 20, name |-> "UBX-NAV-TIMEBDS"])
    @@ (37 :> [str |-> "TIMEGAL", dec |-> "nav_timegal", minlen |-> 20, name |-> "UBX-NAV-TIMEGAL"])
    @@ (38 :> [str |-> "TIMELS", dec |-> "nav_timels", minlen |-> 24, name |-> "UBX-NAV-TIMELS"])
    @@ (39 :> [str |-> "TIMEQZSS", dec |-> "nav_timeqzss", minlen |-> 20, name |-> "UBX-NAV-TIMEQZSS"])
    @@ (48 :> [str |-> "SVINFO", dec |-> "nav_svinfo", minlen |-> 8, name |-> "UBX-NAV-SVINFO"])
    @@ (49 :> [str |-> "DGPS", dec |-> "nav_dgps", minlen |-> 16, name |-> "UBX-NAV-DGPS"])
    @@ (50 :> [str |-> "SBAS", dec |-> "nav_sbas", minlen |-> 12, name |-> "UBX-NAV-SBAS"])
    @@ (52 :> [str |-> "ORB", dec |-> "nav_orb", minlen |-> 8, name |-> "UBX-NAV-ORB"])
    @@ (53 :> [str |-> "SAT", dec |-> "nav_sat", minlen |-> 8, name |-> "UBX-NAV-SAT"])
    @@ (54 :> [str |-> "COV", dec |-> "nav_cov", minlen |-> 64, name |-> "UBX-NAV-COV"])
    @@ (57 :> [str |-> "GEOFENCE", dec |-> "nav_geofence", minlen |-> 8, name |-> "UBX-NAV-GEOFENCE"])
    @@ (59 :> [str |-> "SVIN", dec |-> "nav_svin", minlen |-> 40, name |-> "UBX-NAV-SVIN"])
    @@ (60 :> [str |-> "RELPOSNED", dec |-> "nav_relposned", minlen |-> 40, name |-> "UBX-NAV-RELPOSNED"])
    @@ (61 :> [str |-> "EELL", dec |-> "nav_eell", minlen |-> 16, name |-> "UBX-NAV-EELL"])
    @@ (64 :> [str |-> "EKFSTATUS", minlen |-> 36, name |-> "UBX-NAV-EKFSTATUS"])
    @@ (66 :> [str |-> "SLAS", dec |-> "nav_slas", minlen |-> 20, name |-> "UBX-NAV-SLAS"])
    @@ (67 :> [str |-> "SIG", dec |-> "nav_sig", minlen |-> 8, name |-> "UBX-NAV-SIG"])
    @@ (96 :> [str |-> "AOPSTATUS", dec |-> "nav_aopstatus", minlen |-> 16, name |-> "UBX-NAV-AOPSTATUS"])
    @@ (97 :> [str |-> "EOE", dec |-> "nav_eoe", minlen |-> 4, name |-> "UBX-NAV-EOE"])
    @@ (98 :> [str |-> "PL", dec |-> "nav_pl", minlen |-> 52, name |-> "UBX-NAV-PL"])
    @@ (99 :> [str |-> "TIMENAVIC", dec |-> "nav_timenavic", minlen |-> 20, name |-> "UBX-NAV-TIMENAVIC"])
    @@ (100 :> [str |-> "TIMETRUSTED", dec |-> "nav_timetrusted", minlen |-> 40, name |-> "UBX-NAV-TIMETRUSTED"])

\* nav2_ids (ubx.py 8195-8237); each key a message id, depver in hundredths
nav2_ids ==
       (1 :> [str |-> "POSECEF", minlen |-> 20, name |-> "UBX-NAV2-POSECEF"])
    @@ (2 :> [str |-> "POSLLH", minlen |-> 20, name |-> "UBX-NAV2-POSLLH"])
    @@ (3 :> [str |-> "STATUS", minlen |-> 16, name |-> "UBX-NAV2-STATUS"])
    @@ (4 :> [str |-> "DOP", minlen |-> 18, name |-> "UBX-NAV2-DOP"])
    @@ (7 :> [str |-> "PVT", minlen |-> 92, name |-> "UBX-NAV2-PVT"])
    @@ (17 :> [str |-> "VELECEF", minlen |-> 20, name |-> "UBX-NAV2-VELECEF"])
    @@ (18 :> [str |-> "VELNED", minlen |-> 36, name |-> "UBX-NAV2-VELNED"])
    @@ (32 :> [str |-> "TIMEGPS", minlen |-> 16, name |-> "UBX-NAV2-TIMEGPS"])
    @@ (33 :> [str |-> "TIMEUTC", minlen |-> 20, name |-> "UBX-NAV2-TIMEUTC"])
    @@ (34 :> [str |-> "CLOCK", dec |-> "nav2_clock", minlen |-> 20, name |-> "UBX-NAV2-CLOCK"])
    @@ (36 :> [str |-> "TIMEBDS", minlen |-> 20, name |-> "UBX-NAV2-TIMEBDS"])
    @@ (37 :> [str |-> "TIMEGAL", minlen |-> 20, name |-> "UBX-NAV2-TIMEGAL"])
    @@ (38 :> [str |-> "TIMELS", minlen |-> 24, name |-> "UBX-NAV2-TIMELS"])
    @@ (39 :> [str |-> "TIMEQZSS", minlen |-> 20, name |-> "UBX-NAV2-QZSS"])
    @@ (50 :> [str |-> "SBAS", minlen |-> 12, name |-> "UBX-NAV2-SBAS"])
    @@ (53 :> [str |-> "SAT", minlen |-> 8, name |-> "UBX-NAV2-SAT"])
    @@ (54 :> [str |-> "COV", minlen |-> 64, name |-> "UBX-NAV2-COV"])
    @@ (66 :> [str |-> "SLAS", minlen |-> 20, name |-> "UBX-NAV2-SLAS"])
    @@ (67 :> [str |-> "SIG", minlen |-> 8, name |-> "UBX-NAV2-SIG"])
    @@ (97 :> [str |-> "EOE", minlen |-> 4, name |-> "UBX-NAV2-EOE"])
    @@ (99 :> [str |-> "TIMENAVIC", minlen |-> 20, name |-> "UBX-NAV2-TIMENAVIC"])

\* rtcm_ids (ubx.py 8240-8251); each key a message id, depver in hundredths
rtcm_ids ==
       (5 :> [str |-> "1005"])
    @@ (74 :> [str |-> "1074"])
    @@ (77 :> [str |-> "1077"])
    @@ (84 :> [str |-> "1084"])
    @@ (87 :> [str |-> "1087"])
    @@ (97 :> [str |-> "1097"])
    @@ (124 :> [str |-> "1124"])
    @@ (127 :> [str |-> "1127"])
    @@ (230 :> [str |-> "1230"])
    @@ (253 :> [str |-> "4072-1"])
    @@ (254 :> [str |-> "4072-0"])

\* nmea_ids (ubx.py 8254-8273); each key a message id, depver in hundredths
nmea_ids ==
       (0 :> [str |-> "GGA"])
    @@ (1 :> [str |-> "GLL"])
    @@ (2 :> [str |-> "GSA"])
    @@ (3 :> [str |-> "GSV"])
    @@ (4 :> [str |-> "RMC"])
    @@ (5 :> [str |-> "VTG"])
    @@ (6 :> [str |-> "GRS"])
    @@ (7 :> [str |-> "GST"])
    @@ (8 :> [str |-> "ZDA"])
    @@ (9 :> [str |-> "GBS"])
    @@ (10 :> [str |-> "DTM"])
    @@ (13 :> [str |-> "GNS"])
    @@ (15 :> [str |-> "VLW"])
    @@ (64 :> [str |-> "GPQ"])
    @@ (65 :> [str |-> "TXT"])
    @@ (66 :> [str |-> "GNQ"])
    @@ (67 :> [str |-> "GLQ"])
    @@ (68 :> [str |-> "GBQ"])
    @@ (69 :> [str |-> "GAQ"])

\* rxm_ids (ubx.py 9860-9895); each key a message id, depver in hundredths
rxm_ids ==
       (16 :> [str |-> "RAW", dec |-> "rxm_raw", minlen |-> 8, name |-> "UBX-RXM-RAW"])
    @@ (17 :> [str |-> "SFRB", dec |-> "rxm_sfrb", minlen |-> 42, name |-> "UBX-RXM-SFRB"])
    @@ (19 :> [str |-> "SFRBX", dec |-> "rxm_sfrbx", minlen |-> 8, name |-> "UBX-RXM-SFRBX"])
    @@ (20 :> [str |-> "MEASX", dec |-> "rxm_measx", minlen |-> 44, name |-> "UBX-RXM-MEASX"])
    @@ (21 :> [str |-> "RAWX", dec |-> "rxm_rawx", minlen |-> 16, name |-> "UBX-RXM-RAWX"])
    @@ (32 :> [str |-> "SVSI", dec |-> "rxm_svsi", minlen |-> 8, name |-> "UBX-RXM-SVSI"])
    @@ (48 :> [str |-> "ALM", minlen |-> 1, name |-> "UBX-RXM-ALM"])
    @@ (49 :> [str |-> "EPH", minlen |-> 1, name |-> "UBX-RXM-EPH"])
    @@ (50 :> [str |-> "RTCM", dec |-> "rxm_rtcm", minlen |-> 8, name |-> "UBX-RXM-RTCM"])
    @@ (51 :> [str |-> "SPARTN", dec |-> "rxm_spartn", minlen |-> 8, name |-> "UBX-RXM-SPARTN"])
    @@ (52 :> [str |-> "COR", minlen |-> 12, name |-> "UBX-RXM-COR"])
    @@ (54 :> [str |-> "SPARTNKEY", dec |-> "rxm_spartnkey", minlen |-> 4, name |-> "UBX-RXM-SPARTNKEY"])
    @@ (65 :> [str |-> "PMREQ", dec |-> "rxm_pmreq", minlen |-> 4, name |-> "UBX-RXM-PMREQ"])
    @@ (89 :> [str |-> "RLM", dec |-> "rxm_rlm", minlen |-> 16, name |-> "UBX-RXM-RLM"])
    @@ (97 :> [str |-> "IMES", dec |-> "rxm_imes", minlen |-> 4, name |-> "UBX-RXM-IMES"])
    @@ (114 :> [str |-> "PMP", minlen |-> 24, name |-> "UBX-RXM-PMP"])
    @@ (116 :> [str |-> "TM", minlen |-> 8, name |-> "UBX-RXM-TM"])

\* sec_ids (ubx.py 10134-10144); each key a message id, depver in hundredths
sec_ids ==
       (1 :> [str |-> "SIGN", dec |-> "sec_sign", minlen |-> 40, name |-> "UBX-SEC-SIGN"])
    @@ (3 :> [str |-> "UNIQID", dec |-> "sec_uniqid", minlen |-> 9, name |-> "UBX-SEC-UNIQID"])
    @@ (9 :> [str |-> "SIG", dec |-> "sec_sig", minlen |-> 4, name |-> "UBX-SEC-SIG"])
    @@ (10 :> [str |-> "OSNMA", dec |-> "sec_osnma", minlen |-> 28, name |-> "UBX-SEC-OSNMA"])
    @@ (16 :> [str |-> "SIG", dec |-> "sec_siglog", minlen |-> 8, name |-> "UBX-SEC-SIGLOG"])

\* tim_ids (ubx.py 10257-10277); each key a message id, depver in hundredths
tim_ids ==
       (1 :> [str |-> "TP", dec |-> "tim_tp", minlen |-> 16, name |-> "UBX-TIM-TP"])
    @@ (3 :> [str |-> "TM2", dec |-> "tim_tm2", minlen |-> 28, name |-> "UBX-TIM-TM2"])
    @@ (4 :> [str |-> "SVIN", dec |-> "tim_svin", minlen |-> 28, name |-> "UBX-TIM-SVIN"])
    @@ (6 :> [str |-> "VRFY", dec |-> "tim_vrfy", minlen |-> 20, name |-> "UBX-TIM-VRFY"])
    @@ (17 :> [str |-> "DOSC", minlen |-> 8, name |-> "UBX-TIM-DOSC"])
    @@ (18 :> [str |-> "TOS", minlen |-> 56, name |-> "UBX-TIM-TOS"])
    @@ (19 :> [str |-> "SMEAS", minlen |-> 12, name |-> "UBX-TIM-SMEAS"])
    @@ (21 :> [str |-> "VCOCAL", minlen |-> 1, name |-> "UBX-TIM-VCOCAL"])
    @@ (22 :> [str |-> "FCHG", minlen |-> 32, name |-> "UBX-TIM-FCHG"])
    @@ (23 :> [str |-> "HOC", minlen |-> 8, name |-> "UBX-TIM-HOC"])

\* upd_ids (ubx.py 10336-10342); each key a message id, depver in hundredths
upd_ids ==
       (12 :> [str |-> "undoc1", minlen |-> 13, name |-> "UBX-UPD-undoc1"])
    @@ (20 :> [str |-> "SOS", dec |-> "upd_sos", name |-> "UBX-UPD-SOS"])
    @@ (37 :> [str |-> "undoc2", minlen |-> 20, name |-> "UBX-UPD-undoc2"])

\* classes (ubx.py 10344-10364): message class -> short name and id table
classes ==
       (1 :> [str |-> "NAV", ids |-> nav_ids])
    @@ (2 :> [str |-> "RXM", ids |-> rxm_ids])
    @@ (4 :> [str |-> "INF", ids |-> inf_ids])
    @@ (5 :> [str |-> "ACK", ids |-> ack_ids])
    @@ (6 :> [str |-> "CFG", ids |-> cfg_ids])
    @@ (9 :> [str |-> "UPD", ids |-> upd_ids])
    @@ (10 :> [str |-> "MON", ids |-> mon_ids])
    @@ (11 :> [str |-> "AID", ids |-> aid_ids])
    @@ (13 :> [str |-> "TIM", ids |-> tim_ids])
    @@ (16 :> [str |-> "ESF", ids |-> esf_ids])
    @@ (19 :> [str |-> "MGA", ids |-> mga_ids])
    @@ (33 :> [str |-> "LOG", ids |-> log_ids])
    @@ (39 :> [str |-> "SEC", ids |-> sec_ids])
    @@ (40 :> [str |-> "HNR", ids |-> hnr_ids])
    @@ (41 :> [str |-> "NAV2", ids |-> nav2_ids])
    @@ (240 :> [str |-> "NMEA", ids |-> nmea_ids])
    @@ (245 :> [str |-> "RTCM", ids |-> rtcm_ids])

\* cfgs: the items (name, key, type, scale, unit, description) in the
\* order of the table; a scale that is not an integer is kept as its text
cfgs ==
    <<
      <<"CFG", 536870911, "", 0, "",
        "get all CFG">>,
      <<"CFG-ANA", 270794751, "", 0, "",
        "get all CFG-ANA">>,
      <<"CFG-ANA-USE_ANA", 270729217, "L", 1, "",
        "Use AssistNow Autonomous">>,
      <<"CFG-ANA-ORBMAXERR", 807600130, "U2", 1, "m",
        "Maximum acceptable (modeled) orbit error">>,
      <<"CFG-BATCH", 270991359, "", 0, "",
        "get all CFG-BATCH">>,
      <<"CFG-BATCH-ENABLE", 270925843, "L", 1, "",
        "Enable the feature. Needs further configuration.">>,
      <<"CFG-BATCH-PIOENABLE", 270925844, "L", 1, "",
        "Enable PIO notification when buffer fill level exceeds WARNTHRS.">>,
      <<"CFG-BATCH-MAXENTRIES", 807796757, "U2", 1, "",
        "Size of buffer in number of epochs to store.">>,
      <<"CFG-BATCH-WARNTHRS", 807796758, "U2", 1, "",
        "Fill level to trigger PIO notification, number of epochs stored.">>,
      <<"CFG-BATCH-PIOACTIVELOW", 270925848, "L", 1, "",
        "Drive CFG-BATCH-PIOID low when buffer fill level reaches WARNTHRS">>,
      <<"CFG-BATCH-PIOID", 539361305, "U1", 1, "",
        "PIO that is used for buffer fill level notification">>,
      <<"CFG-BATCH-EXTRAPVT", 270925850, "L", 1, "",
        "Include additional PVT information in UBX-LOG-BATCH messages">>,
      <<"CFG-BATCH-EXTRAODO", 270925851, "L", 1, "",
        "Include additional ODO information in UBX-LOG-BATCH messages">>,
      <<"CFG-BDS", 271908863, "", 0, "",
        "get all CFG-BDS">>,
      <<"CFG-BDS-D1D2_NAVDATA", 540278793, "E1", 1, "",
        "BDS D1 D2 navdata">>,
      <<"CFG-BDS-USE_GEO_PRN", 271843348, "L", 1, "",
        "Use BDS geostationary sats (PRN 1-5, 59-63)">>,
      <<"CFG-CFB", 269287423, "", 0, "",
        "get all CFG-CFB">>,
      <<"CFG-CFB-ENABLE", 269221889, "L", 1, "",
        "Enable Confidence Bound estimation">>,
      <<"CFG-CFB-WINDOW_SIZE", 1074528263, "I4", 1, "",
        "Average Window Size for CFB">>,
      <<"CFG-GAL", 271974399, "", 0, "",
        "get all CFG-GAL">>,
      <<"CFG-GAL-USE_OSNMA", 271908869, "L", 1, "",
        "Use GAL Nav Data">>,
      <<"CFG-GAL-OSNMA_MINTAGLENGTH", 540344327, "U1", 1, "",
        "Use GAL Nav Data min length">>,
      <<"CFG-GAL-OSNMA_TIMESYNC", 271908873, "L", 1, "",
        "Use GAL OSNMA time sync">>,
      <<"CFG-GAL-OSNMA_INAVPRIM", 271908880, "L", 1, "",
        "Use GAL I/NAV as primary source">>,
      <<"CFG-GEOFENCE", 539295743, "", 0, "",
        "get all CFG-GEOFENCE">>,
      <<"CFG-GEOFENCE-CONFLVL", 539230225, "E1", 1, "",
        "Required confidence level for state evaluation">>,
      <<"CFG-GEOFENCE-USE_PIO", 270794770, "L", 1, "",
        "Use PIO combined fence state output">>,
      <<"CFG-GEOFENCE-PINPOL", 539230227, "E1", 1, "",
        "PIO pin polarity">>,
      <<"CFG-GEOFENCE-PIN", 539230228, "U1", 1, "",
        "PIO pin number">>,
      <<"CFG-GEOFENCE-USE_FENCE1", 270794784, "L", 1, "",
        "Use first geofence">>,
      <<"CFG-GEOFENCE-FENCE1_LAT", 1076101153, "I4", "1e-07", "deg",
        "Latitude of the first geofence circle center">>,
      <<"CFG-GEOFENCE-FENCE1_LON", 1076101154, "I4", "1e-07", "deg",
        "Longitude of the first geofence circle center">>,
      <<"CFG-GEOFENCE-FENCE1_RAD", 1076101155, "U4", "0.01", "m",
        "Radius of the first geofence circle">>,
      <<"CFG-GEOFENCE-USE_FENCE2", 270794800, "L", 1, "",
        "Use second geofence">>,
      <<"CFG-GEOFENCE-FENCE2_LAT", 1076101169, "I4", "1e-07", "deg",
        "Latitude of the second geofence circle center">>,
      <<"CFG-GEOFENCE-FENCE2_LON", 1076101170, "I4", "1e-07", "deg",
        "Longitude of the second geofence circle center">>,
      <<"CFG-GEOFENCE-FENCE2_RAD", 1076101171, "U4", "0.01", "m",
        "Radius of the second geofence circle">>,
      <<"CFG-GEOFENCE-USE_FENCE3", 270794816, "L", 1, "",
        "Use third geofence">>,
      <<"CFG-GEOFENCE-FENCE3_LAT", 1076101185, "I4", "1e-07", "deg",
        "Latitude of the third geofence circle center">>,
      <<"CFG-GEOFENCE-FENCE3_LON", 1076101186, "I4", "1e-07", "deg",
        "Longitude of the third geofence circle center">>,
      <<"CFG-GEOFENCE-FENCE3_RAD", 1076101187, "U4", "0.01", "m",
        "Radius of the third geofence circle">>,
      <<"CFG-GEOFENCE-USE_FENCE4", 270794832, "L", 1, "",
        "Use fourth geofence">>,
      <<"CFG-GEOFENCE-FENCE4_LAT", 1076101201, "I4", "1e-07", "deg",
        "Latitude of the fourth geofence circle center">>,
      <<"CFG-GEOFENCE-FENCE4_LON", 1076101202, "I4", "1e-07", "deg",
        "Longitude of the fourth geofence circle center">>,
      <<"CFG-GEOFENCE-FENCE4_RAD", 1076101203, "U4", "0.01", "m",
        "Radius of the fourth geofence circle">>,
      <<"CFG-HW", 279183359, "", 0, "",
        "get all CFG-HW">>,
      <<"CFG-HW-ANT_CFG_VOLTCTRL", 279117870, "L", 1, "",
        "Active antenna voltage control flag">>,
      <<"CFG-HW-ANT_CFG_SHORTDET", 279117871, "L", 1, "",
        "Short antenna detection flag">>,
      <<"CFG-HW-ANT_CFG_SHORTDET_POL", 279117872, "L", 1, "",
        "Short antenna detection polarity">>,
      <<"CFG-HW-ANT_CFG_OPENDET", 279117873, "L", 1, "",
        "Open antenna detection flag">>,
      <<"CFG-HW-ANT_CFG_OPENDET_POL", 279117874, "L", 1, "",
        "Open antenna detection polarity">>,
      <<"CFG-HW-ANT_CFG_PWRDOWN", 279117875, "L", 1, "",
        "Power down antenna flag">>,
      <<"CFG-HW-ANT_CFG_PWRDOWN_POL", 279117876, "L", 1, "",
        "Power down antenna logic polarity">>,
      <<"CFG-HW-ANT_CFG_RECOVER", 279117877, "L", 1, "",
        "Automatic recovery from short state flag">>,
      <<"CFG-HW-ANT_SUP_SWITCH_PIN", 547553334, "U1", 1, "",
        "ANT1 PIO number">>,
      <<"CFG-HW-ANT_SUP_SHORT_PIN", 547553335, "U1", 1, "",
        "ANT0 PIO number">>,
      <<"CFG-HW-ANT_SUP_OPEN_PIN", 547553336, "U1", 1, "",
        "ANT2 PIO number">>,
      <<"CFG-HW-ANT_ON_SHORT_US", 815988796, "U2", 1, "",
        "ANT2 on->short timeout">>,
      <<"CFG-HW-ANT_SUP_ENGINE", 547553364, "E1", 1, "",
        "Antenna supervisor engine selection">>,
      <<"CFG-HW-ANT_SUP_SHORT_THR", 547553365, "U1", 1, "mV",
        "Antenna supervisor MADC engine short detection threshold">>,
      <<"CFG-HW-ANT_SUP_OPEN_THR", 547553366, "U1", 1, "mV",
        "Antenna supervisor MADC engine open detection threshold">>,
      <<"CFG-HW-RF_LNA_MODE", 547553367, "E1", 1, "",
        "Mode for internal LNA">>,
      <<"CFG-HW-SENS_WOM_MODE", 547553379, "E1", 1, "",
        "Select Wake-On-Motion mode">>,
      <<"CFG-HW-SENS_WOM_THLD", 547553380, "U1", 1, "",
        "Select Wake-On-Motion threshold">>,
      <<"CFG-HW-RF1_LNA_MODE_LOWGAIN", 279117930, "L", 1, "",
        "Low Gain Mode for internal LNA RF1">>,
      <<"CFG-HW-RF2_LNA_MODE_LOWGAIN", 279117931, "L", 1, "",
        "Low Gain Mode for internal LNA RF2">>,
      <<"CFG-HW-RF3_LNA_MODE_LOWGAIN", 279117932, "L", 1, "",
        "Low Gain Mode for internal LNA RF3">>,
      <<"CFG-I2C", 542244863, "", 0, "",
        "get all CFG-I2C">>,
      <<"CFG-I2C-ADDRESS", 542179329, "U1", 1, "",
        "I2C slave address of the receiver">>,
      <<"CFG-I2C-EXTENDEDTIMEOUT", 273743874, "L", 1, "",
        "Flag to disable timeouting the interface after 1.5 s">>,
      <<"CFG-I2C-ENABLED", 273743875, "L", 1, "",
        "Flag to indicate if the I2C interface should be enabled">>,
      <<"CFG-I2C-REMAP", 273743876, "L", 1, "",
        "I2C remapping">>,
      <<"CFG-I2CINPROT", 275906559, "", 0, "",
        "get all CFG-I2CINPROT">>,
      <<"CFG-I2CINPROT-UBX", 275841025, "L", 1, "",
        "Flag to indicate if UBX should be an input on I2C">>,
      <<"CFG-I2CINPROT-NMEA", 275841026, "L", 1, "",
        "Flag to indicate if NMEA should be an input on I2C">>,
      <<"CFG-I2CINPROT-RTCM2X", 275841027, "L", 1, "",
        "Flag to indicate if RTCM2X should be an input on I2C">>,
      <<"CFG-I2CINPROT-RTCM3X", 275841028, "L", 1, "",
        "Flag to indicate if RTCM3X should be input on I2C">>,
      <<"CFG-I2CINPROT-SPARTN", 275841029, "L", 1, "",
        "Flag to indicate if SPARTN should be input on I2C">>,
      <<"CFG-I2COUTPROT", 275972095, "", 0, "",
        "get all CFG-I2COUTPROT">>,
      <<"CFG-I2COUTPROT-UBX", 275906561, "L", 1, "",
        "Flag to indicate if UBX should be an output on I2C">>,
      <<"CFG-I2COUTPROT-NMEA", 275906562, "L", 1, "",
        "Flag to indicate if NMEA should be an output on I2C">>,
      <<"CFG-I2COUTPROT-RTCM3X", 275906564, "L", 1, "",
        "Flag to indicate if RTCM3X should be an output on I2C">>,
      <<"CFG-INFMSG", 546504703, "", 0, "",
        "get all CFG-INFMSG">>,
      <<"CFG-INFMSG-UBX_I2C", 546439169, "X1", 1, "",
        "Information message enable flags for UBX protocol on I2C">>,
      <<"CFG-INFMSG-UBX_UART1", 546439170, "X1", 1, "",
        "Information message enable flags for UBX protocol on UART1">>,
      <<"CFG-INFMSG-UBX_UART2", 546439171, "X1", 1, "",
        "Information message enable flags for UBX protocol on UART2">>,
      <<"CFG-INFMSG-UBX_USB", 546439172, "X1", 1, "",
        "Information message enable flags for UBX protocol on USB">>,
      <<"CFG-INFMSG-UBX_SPI", 546439173, "X1", 1, "",
        "Information message enable flags for UBX protocol on SPI">>,
      <<"CFG-INFMSG-NMEA_I2C", 546439174, "X1", 1, "",
        "Information message enable flags for NMEA protocol on I2C">>,
      <<"CFG-INFMSG-NMEA_UART1", 546439175, "X1", 1, "",
        "Information message enable flags for NMEA protocol on UART1">>,
      <<"CFG-INFMSG-NMEA_UART2", 546439176, "X1", 1, "",
        "Information message enable flags for NMEA protocol on UART2">>,
      <<"CFG-INFMSG-NMEA_USB", 546439177, "X1", 1, "",
        "Information message enable flags for NMEA protocol on USB">>,
      <<"CFG-INFMSG-NMEA_SPI", 546439178, "X1", 1, "",
        "Information message enable flags for NMEA protocol on SPI">>,
      <<"CFG-ITFM", 541196287, "", 0, "",
        "get all CFG-ITFM">>,
      <<"CFG-ITFM-BBTHRESHOLD", 541130753, "U1", 1, "",
        "Broadband jamming detection threshold">>,
      <<"CFG-ITFM-CWTHRESHOLD", 541130754, "U1", 1, "",
        "CW jamming detection threshold">>,
      <<"CFG-ITFM-ENABLE", 272695309, "L", 1, "",
        "Enable interference detection">>,
      <<"CFG-ITFM-ANTSETTING", 541130768, "E1", 1, "",
        "Antenna setting">>,
      <<"CFG-ITFM-ENABLE_AUX", 272695315, "L", 1, "",
        "Set to true to scan auxiliary bands">>,
      <<"CFG-LOGFILTER", 283049983, "", 0, "",
        "get all CFG-LOGFILTER">>,
      <<"CFG-LOGFILTER-RECORD_ENA", 282984450, "L", 1, "",
        "Recording enabled">>,
      <<"CFG-LOGFILTER-ONCE_PER_WAKE_UP_ENA", 282984451, "L", 1, "",
        "Once per wakeup">>,
      <<"CFG-LOGFILTER-APPLY_ALL_FILTERS", 282984452, "L", 1, "",
        "Apply all filter settings">>,
      <<"CFG-LOGFILTER-MIN_INTERVAL", 819855365, "U2", 1, "s",
        "Minimum time interval between logged positions">>,
      <<"CFG-LOGFILTER-TIME_THRS", 819855366, "U2", 1, "s",
        "Time threshold">>,
      <<"CFG-LOGFILTER-SPEED_THRS", 819855367, "U2", 1, "m/s",
        "Speed threshold">>,
      <<"CFG-LOGFILTER-POSITION_THRS", 1088290824, "U4", 1, "m",
        "Position threshold">>,
      <<"CFG-MOT", 807796735, "", 0, "",
        "get all CFG-MOT">>,
      <<"CFG-MOT-GNSSSPEED_THRS", 539295800, "U1", "0.01", "m/s",
        "GNSS speed threshold below which platform is considered as stationary">>,
      <<"CFG-MOT-GNSSDIST_THRS", 807731259, "U2", 1, "",
        "Distance above which GNSS-based stationary motion is exit">>,
      <<"CFG-MOT-IMU_FILT_WINDOW", 807731222, "U2", 1, "ms",
        "Averaging window for IMU measurement">>,
      <<"CFG-MSGOUT", 546439167, "", 0, "",
        "get all CFG-MSGOUT">>,
      <<"CFG-MSGOUT-NMEA_ID_DTM_I2C", 546373798, "U1", 1, "",
        "Output rate of the NMEA-GX-DTM message on port I2C">>,
      <<"CFG-MSGOUT-NMEA_ID_DTM_UART1", 546373799, "U1", 1, "",
        "Output rate of the NMEA-GX-DTM message on port UART1">>,
      <<"CFG-MSGOUT-NMEA_ID_DTM_UART2", 546373800, "U1", 1, "",
        "Output rate of the NMEA-GX-DTM message on port UART2">>,
      <<"CFG-MSGOUT-NMEA_ID_DTM_USB", 546373801, "U1", 1, "",
        "Output rate of the NMEA-GX-DTM message on port USB">>,
      <<"CFG-MSGOUT-NMEA_ID_DTM_SPI", 546373802, "U1", 1, "",
        "Output rate of the NMEA-GX-DTM message on port SPI">>,
      <<"CFG-MSGOUT-NMEA_ID_RMC_I2C", 546373803, "U1", 1, "",
        "Output rate of the NMEA-GX-RMC message on port I2C">>,
      <<"CFG-MSGOUT-NMEA_ID_RMC_UART1", 546373804, "U1", 1, "",
        "Output rate of the NMEA-GX-RMC message on port UART1">>,
      <<"CFG-MSGOUT-NMEA_ID_RMC_UART2", 546373805, "U1", 1, "",
        "Output rate of the NMEA-GX-RMC message on port UART2">>,
      <<"CFG-MSGOUT-NMEA_ID_RMC_USB", 546373806, "U1", 1, "",
        "Output rate of the NMEA-GX-RMC message on port USB">>,
      <<"CFG-MSGOUT-NMEA_ID_RMC_SPI", 546373807, "U1", 1, "",
        "Output rate of the NMEA-GX-RMC message on port SPI">>,
      <<"CFG-MSGOUT-NMEA_ID_VTG_I2C", 546373808, "U1", 1, "",
        "Output rate of the NMEA-GX-VTG message on port I2C">>,
      <<"CFG-MSGOUT-NMEA_ID_VTG_UART1", 546373809, "U1", 1, "",
        "Output rate of the NMEA-GX-VTG message on port UART1">>,
      <<"CFG-MSGOUT-NMEA_ID_VTG_UART2", 546373810, "U1", 1, "",
        "Output rate of the NMEA-GX-VTG message on port UART2">>,
      <<"CFG-MSGOUT-NMEA_ID_VTG_USB", 546373811, "U1", 1, "",
        "Output rate of the NMEA-GX-VTG message on port USB">>,
      <<"CFG-MSGOUT-NMEA_ID_VTG_SPI", 546373812, "U1", 1, "",
        "Output rate of the NMEA-GX-VTG message on port SPI">>,
      <<"CFG-MSGOUT-NMEA_ID_GNS_I2C", 546373813, "U1", 1, "",
        "Output rate of the NMEA-GX-GNS message on port I2C">>,
      <<"CFG-MSGOUT-NMEA_ID_GNS_UART1", 546373814, "U1", 1, "",
        "Output rate of the NMEA-GX-GNS message on port UART1">>,
      <<"CFG-MSGOUT-NMEA_ID_GNS_UART2", 546373815, "U1", 1, "",
        "Output rate of the NMEA-GX-GNS message on port UART2">>,
      <<"CFG-MSGOUT-NMEA_ID_GNS_USB", 546373816, "U1", 1, "",
        "Output rate of the NMEA-GX-GNS message on port USB">>,
      <<"CFG-MSGOUT-NMEA_ID_GNS_SPI", 546373817, "U1", 1, "",
        "Output rate of the NMEA-GX-GNS message on port SPI">>,
      <<"CFG-MSGOUT-NMEA_ID_GGA_I2C", 546373818, "U1", 1, "",
        "Output rate of the NMEA-GX-GGA message on port I2C">>,
      <<"CFG-MSGOUT-NMEA_ID_GGA_UART1", 546373819, "U1", 1, "",
        "Output rate of the NMEA-GX-GGA message on port UART1">>,
      <<"CFG-MSGOUT-NMEA_ID_GGA_UART2", 546373820, "U1", 1, "",
        "Output rate of the NMEA-GX-GGA message on port UART2">>,
      <<"CFG-MSGOUT-NMEA_ID_GGA_USB", 546373821, "U1", 1, "",
        "Output rate of the NMEA-GX-GGA message on port USB">>,
      <<"CFG-MSGOUT-NMEA_ID_GGA_SPI", 546373822, "U1", 1, "",
        "Output rate of the NMEA-GX-GGA message on port SPI">>,
      <<"CFG-MSGOUT-NMEA_ID_GSA_I2C", 546373823, "U1", 1, "",
        "Output rate of the NMEA-GX-GSA message on port I2C">>,
      <<"CFG-MSGOUT-NMEA_ID_GSA_UART1", 546373824, "U1", 1, "",
        "Output rate of the NMEA-GX-GSA message on port UART1">>,
      <<"CFG-MSGOUT-NMEA_ID_GSA_UART2", 546373825, "U1", 1, "",
        "Output rate of the NMEA-GX-GSA message on port UART2">>,
      <<"CFG-MSGOUT-NMEA_ID_GSA_USB", 546373826, "U1", 1, "",
        "Output rate of the NMEA-GX-GSA message on port USB">>,
      <<"CFG-MSGOUT-NMEA_ID_GSA_SPI", 546373827, "U1", 1, "",
        "Output rate of the NMEA-GX-GSA message on port SPI">>,
      <<"CFG-MSGOUT-NMEA_ID_GSV_I2C", 546373828, "U1", 1, "",
        "Output rate of the NMEA-GX-GSV message on port I2C">>,
      <<"CFG-MSGOUT-NMEA_ID_GSV_UART1", 546373829, "U1", 1, "",
        "Output rate of the NMEA-GX-GSV message on port UART1">>,
      <<"CFG-MSGOUT-NMEA_ID_GSV_UART2", 546373830, "U1", 1, "",
        "Output rate of the NMEA-GX-GSV message on port UART">>,
      <<"CFG-MSGOUT-NMEA_ID_GSV_USB", 546373831, "U1", 1, "",
        "Output rate of the NMEA-GX-GSV message on port USB">>,
      <<"CFG-MSGOUT-NMEA_ID_GSV_SPI", 546373832, "U1", 1, "",
        "Output rate of the NMEA-GX-GSV message on port SPI">>,
      <<"CFG-MSGOUT-NMEA_ID_GLL_I2C", 546373833, "U1", 1, "",
        "Output rate of the NMEA-GX-GLL message on port I2C">>,
      <<"CFG-MSGOUT-NMEA_ID_GLL_UART1", 546373834, "U1", 1, "",
        "Output rate of the NMEA-GX-GLL message on port UART1">>,
      <<"CFG-MSGOUT-NMEA_ID_GLL_UART2", 546373835, "U1", 1, "",
        "Output rate of the NMEA-GX-GLL message on port UART2">>,
      <<"CFG-MSGOUT-NMEA_ID_GLL_USB", 546373836, "U1", 1, "",
        "Output rate of the NMEA-GX-GLL message on port USB">>,
      <<"CFG-MSGOUT-NMEA_ID_GLL_SPI", 546373837, "U1", 1, "",
        "Output rate of the NMEA-GX-GLL message on port SPI">>,
      <<"CFG-MSGOUT-NMEA_ID_GRS_I2C", 546373838, "U1", 1, "",
        "Output rate of the NMEA-GX-GRS message on port I2C">>,
      <<"CFG-MSGOUT-NMEA_ID_GRS_UART1", 546373839, "U1", 1, "",
        "Output rate of the NMEA-GX-GRS message on port UART1">>,
      <<"CFG-MSGOUT-NMEA_ID_GRS_UART2", 546373840, "U1", 1, "",
        "Output rate of the NMEA-GX-GRS message on port UART2">>,
      <<"CFG-MSGOUT-NMEA_ID_GRS_USB", 546373841, "U1", 1, "",
        "Output rate of the NMEA-GX-GRS message on port USB">>,
      <<"CFG-MSGOUT-NMEA_ID_GRS_SPI", 546373842, "U1", 1, "",
        "Output rate of the NMEA-GX-GRS message on port SPI">>,
      <<"CFG-MSGOUT-NMEA_ID_GST_I2C", 546373843, "U1", 1, "",
        "Output rate of the NMEA-GX-GST message on port I2C">>,
      <<"CFG-MSGOUT-NMEA_ID_GST_UART1", 546373844, "U1", 1, "",
        "Output rate of the NMEA-GX-GST message on port UART1">>,
      <<"CFG-MSGOUT-NMEA_ID_GST_UART2", 546373845, "U1", 1, "",
        "Output rate of the NMEA-GX-GST message on port UART2">>,
      <<"CFG-MSGOUT-NMEA_ID_GST_USB", 546373846, "U1", 1, "",
        "Output rate of the NMEA-GX-GST message on port USB">>,
      <<"CFG-MSGOUT-NMEA_ID_GST_SPI", 546373847, "U1", 1, "",
        "Output rate of the NMEA-GX-GST message on port SPI">>,
      <<"CFG-MSGOUT-NMEA_ID_ZDA_I2C", 546373848, "U1", 1, "",
        "Output rate of the NMEA-GX-ZDA message on port I2C">>,
      <<"CFG-MSGOUT-NMEA_ID_ZDA_UART1", 546373849, "U1", 1, "",
        "Output rate of the NMEA-GX-ZDA message on port UART1">>,
      <<"CFG-MSGOUT-NMEA_ID_ZDA_UART2", 546373850, "U1", 1, "",
        "Output rate of the NMEA-GX-ZDA message on port UART2">>,
      <<"CFG-MSGOUT-NMEA_ID_ZDA_USB", 546373851, "U1", 1, "",
        "Output rate of the NMEA-GX-ZDA message on port USB">>,
      <<"CFG-MSGOUT-NMEA_ID_ZDA_SPI", 546373852, "U1", 1, "",
        "Output rate of the NMEA-GX-ZDA message on port SPI">>,
      <<"CFG-MSGOUT-NMEA_ID_GBS_I2C", 546373853, "U1", 1, "",
        "Output rate of the NMEA-GX-GBS message on port I2C">>,
      <<"CFG-MSGOUT-NMEA_ID_GBS_UART1", 546373854, "U1", 1, "",
        "Output rate of the NMEA-GX-GBS message on port UART1">>,
      <<"CFG-MSGOUT-NMEA_ID_GBS_UART2", 546373855, "U1", 1, "",
        "Output rate of the NMEA-GX-GBS message on port UART2">>,
      <<"CFG-MSGOUT-NMEA_ID_GBS_USB", 546373856, "U1", 1, "",
        "Output rate of the NMEA-GX-GBS message on port USB">>,
      <<"CFG-MSGOUT-NMEA_ID_GBS_SPI", 546373857, "U1", 1, "",
        "Output rate of the NMEA-GX-GBS message on port SPI">>,
      <<"CFG-MSGOUT-NMEA_ID_THS_I2C", 546373858, "U1", 1, "",
        "Output rate of the NMEA-GX-THS message on port I2C">>,
      <<"CFG-MSGOUT-NMEA_ID_THS_UART1", 546373859, "U1", 1, "",
        "Output rate of the NMEA-GX-THS message on port UART1">>,
      <<"CFG-MSGOUT-NMEA_ID_THS_UART2", 546373860, "U1", 1, "",
        "Output rate of the NMEA-GX-THS message on port UART2">>,
      <<"CFG-MSGOUT-NMEA_ID_THS_USB", 546373861, "U1", 1, "",
        "Output rate of the NMEA-GX-THS message on port USB">>,
      <<"CFG-MSGOUT-NMEA_ID_THS_SPI", 546373862, "U1", 1, "",
        "Output rate of the NMEA-GX-THS message on port SPI">>,
      <<"CFG-MSGOUT-NMEA_ID_VLW_I2C", 546373863, "U1", 1, "",
        "Output rate of the NMEA-GX-VLW message on port I2C">>,
      <<"CFG-MSGOUT-NMEA_ID_VLW_UART1", 546373864, "U1", 1, "",
        "Output rate of the NMEA-GX-VLW message on port UART1">>,
      <<"CFG-MSGOUT-NMEA_ID_VLW_UART2", 546373865, "U1", 1, "",
        "Output rate of the NMEA-GX-VLW message on port UART2">>,
      <<"CFG-MSGOUT-NMEA_ID_VLW_USB", 546373866, "U1", 1, "",
        "Output rate of the NMEA-GX-VLW message on port USB">>,
      <<"CFG-MSGOUT-NMEA_ID_VLW_SPI", 546373867, "U1", 1, "",
        "Output rate of the NMEA-GX-VLW message on port SPI">>,
      <<"CFG-MSGOUT-NMEA_ID_RLM_I2C", 546374656, "U1", 1, "",
        "Output rate of the NMEA-GX-RLM message on port I2C">>,
      <<"CFG-MSGOUT-NMEA_ID_RLM_UART1", 546374657, "U1", 1, "",
        "Output rate of the NMEA-GX-RLM message on port UART1">>,
      <<"CFG-MSGOUT-NMEA_ID_RLM_UART2", 546374658, "U1", 1, "",
        "Output rate of the NMEA-GX-RLM message on port UART2">>,
      <<"CFG-MSGOUT-NMEA_ID_RLM_USB", 546374659, "U1", 1, "",
        "Output rate of the NMEA-GX-RLM message on port USB">>,
      <<"CFG-MSGOUT-NMEA_ID_RLM_SPI", 546374660, "U1", 1, "",
        "Output rate of the NMEA-GX-RLM message on port SPI">>,
      <<"CFG-MSGOUT-NMEA_NAV2_ID_RMC_I2C", 546375250, "U1", 1, "",
        "Output rate of the NMEA-NAV2-RMC message on port I2C">>,
      <<"CFG-MSGOUT-NMEA_NAV2_ID_RMC_UART1", 546375251, "U1", 1, "",
        "Output rate of the NMEA-NAV2X-RMC message on port UART1">>,
      <<"CFG-MSGOUT-NMEA_NAV2_ID_RMC_UART2", 546375252, "U1", 1, "",
        "Output rate of the NMEA-NAV2-RMC message on port UART2">>,
      <<"CFG-MSGOUT-NMEA_NAV2_ID_RMC_USB", 546375253, "U1", 1, "",
        "Output rate of the NMEA-NAV2-RMC message on port USB">>,
      <<"CFG-MSGOUT-NMEA_NAV2_ID_RMC_SPI", 546375254, "U1", 1, "",
        "Output rate of the NMEA-NAV2-RMC message on port SPI">>,
      <<"CFG-MSGOUT-NMEA_NAV2_ID_VTG_I2C", 546375255, "U1", 1, "",
        "Output rate of the NMEA-NAV2-VTG message on port I2C">>,
      <<"CFG-MSGOUT-NMEA_NAV2_ID_VTG_UART1", 546375256, "U1", 1, "",
        "Output rate of the NMEA-NAV2-VTG message on port UART1">>,
      <<"CFG-MSGOUT-NMEA_NAV2_ID_VTG_UART2", 546375257, "U1", 1, "",
        "Output rate of the NMEA-NAV2-VTG message on port UART2">>,
      <<"CFG-MSGOUT-NMEA_NAV2_ID_VTG_USB", 546375258, "U1", 1, "",
        "Output rate of the NMEA-NAV2-VTG message on port USB">>,
      <<"CFG-MSGOUT-NMEA_NAV2_ID_VTG_SPI", 546375259, "U1", 1, "",
        "Output rate of the NMEA-NAV2-VTG message on port SPI">>,
      <<"CFG-MSGOUT-NMEA_NAV2_ID_GNS_I2C", 546375260, "U1", 1, "",
        "Output rate of the NMEA-NAV2-GNS message on port I2C">>,
      <<"CFG-MSGOUT-NMEA_NAV2_ID_GNS_UART1", 546375261, "U1", 1, "",
        "Output rate of the NMEA-NAV2-GNS message on port UART1">>,
      <<"CFG-MSGOUT-NMEA_NAV2_ID_GNS_UART2", 546375262, "U1", 1, "",
        "Output rate of the NMEA-NAV2-GNS message on port UART2">>,
      <<"CFG-MSGOUT-NMEA_NAV2_ID_GNS_USB", 546375263, "U1", 1, "",
        "Output rate of the NMEA-NAV2-GNS message on port USB">>,
      <<"CFG-MSGOUT-NMEA_NAV2_ID_GNS_SPI", 546375264, "U1", 1, "",
        "Output rate of the NMEA-NAV2-GNS message on port SPI">>,
      <<"CFG-MSGOUT-NMEA_NAV2_ID_GGA_I2C", 546375265, "U1", 1, "",
        "Output rate of the NMEA-NAV2-GGA message on port I2C">>,
      <<"CFG-MSGOUT-NMEA_NAV2_ID_GGA_UART1", 546375266, "U1", 1, "",
        "Output rate of the NMEA-NAV2-GGA message on port UART1">>,
      <<"CFG-MSGOUT-NMEA_NAV2_ID_GGA_UART2", 546375267, "U1", 1, "",
        "Output rate of the NMEA-NAV2-GGA message on port UART2">>,
      <<"CFG-MSGOUT-NMEA_NAV2_ID_GGA_USB", 546375268, "U1", 1, "",
        "Output rate of the NMEA-NAV2-GGA message on port USB">>,
      <<"CFG-MSGOUT-NMEA_NAV2_ID_GGA_SPI", 546375269, "U1", 1, "",
        "Output rate of the NMEA-NAV2-GGA message on port SPI">>,
      <<"CFG-MSGOUT-NMEA_NAV2_ID_GSA_I2C", 546375270, "U1", 1, "",
        "Output rate of the NMEA-NAV2-GSA message on port I2C">>,
      <<"CFG-MSGOUT-NMEA_NAV2_ID_GSA_UART1", 546375271, "U1", 1, "",
        "Output rate of the NMEA-NAV2-GSA message on port UART1">>,
      <<"CFG-MSGOUT-NMEA_NAV2_ID_GSA_UART2", 546375272, "U1", 1, "",
        "Output rate of the NMEA-NAV2-GSA message on port UART2">>,
      <<"CFG-MSGOUT-NMEA_NAV2_ID_GSA_USB", 546375273, "U1", 1, "",
        "Output rate of the NMEA-NAV2-GSA message on port USB">>,
      <<"CFG-MSGOUT-NMEA_NAV2_ID_GSA_SPI", 546375274, "U1", 1, "",
        "Output rate of the NMEA-NAV2-GSA message on port SPI">>,
      <<"CFG-MSGOUT-NMEA_NAV2_ID_GLL_I2C", 546375280, "U1", 1, "",
        "Output rate of the NMEA-NAV2-GLL message on port I2C">>,
      <<"CFG-MSGOUT-NMEA_NAV2_ID_GLL_UART1", 546375281, "U1", 1, "",
        "Output rate of the NMEA-NAV2-GLL message on port UART1">>,
      <<"CFG-MSGOUT-NMEA_NAV2_ID_GLL_UART2", 546375282, "U1", 1, "",
        "Output rate of the NMEA-NAV2-GLL message on port UART2">>,
      <<"CFG-MSGOUT-NMEA_NAV2_ID_GLL_USB", 546375283, "U1", 1, "",
        "Output rate of the NMEA-NAV2-GLL message on port USB">>,
      <<"CFG-MSGOUT-NMEA_NAV2_ID_GLL_SPI", 546375284, "U1", 1, "",
        "Output rate of the NMEA-NAV2-GX-GLL message on port SPI">>,
      <<"CFG-MSGOUT-NMEA_NAV2_ID_ZDA_I2C", 546375295, "U1", 1, "",
        "Output rate of the NMEA-NAV2-ZDA message on port I2C">>,
      <<"CFG-MSGOUT-NMEA_NAV2_ID_ZDA_UART1", 546375296, "U1", 1, "",
        "Output rate of the NMEA-NAV2-ZDA message on port UART1">>,
      <<"CFG-MSGOUT-NMEA_NAV2_ID_ZDA_UART2", 546375297, "U1", 1, "",
        "Output rate of the NMEA-NAV2-ZDA message on port UART2">>,
      <<"CFG-MSGOUT-NMEA_NAV2_ID_ZDA_USB", 546375298, "U1", 1, "",
        "Output rate of the NMEA-NAV2-ZDA message on port USB">>,
      <<"CFG-MSGOUT-NMEA_NAV2_ID_ZDA_SPI", 546375299, "U1", 1, "",
        "Output rate of the NMEA-NAV2-ZDA message on port SPI">>,
      <<"CFG-MSGOUT-NMEA_ID_UTC_I2C", 546375375, "U1", 1, "",
        "Output rate of the NMEA-GX-UTC message on port I2C">>,
      <<"CFG-MSGOUT-NMEA_ID_UTC_UART1", 546375376, "U1", 1, "",
        "Output rate of the NMEA-GX-UTC message on port UART1">>,
      <<"CFG-MSGOUT-NMEA_ID_UTC_UART2", 546375377, "U1", 1, "",
        "Output rate of the NMEA-GX-UTC message on port UART2">>,
      <<"CFG-MSGOUT-NMEA_ID_UTC_USB", 546375378, "U1", 1, "",
        "Output rate of the NMEA-GX-UTC message on port USB">>,
      <<"CFG-MSGOUT-NMEA_ID_UTC_SPI", 546375379, "U1", 1, "",
        "Output rate of the NMEA-GX-UTC message on port SPI">>,
      <<"CFG-MSGOUT-PUBX_ID_POLYP_I2C", 546373868, "U1", 1, "",
        "Output rate of the NMEA-GX-PUBX00 message on port I2C">>,
      <<"CFG-MSGOUT-PUBX_ID_POLYP_UART1", 546373869, "U1", 1, "",
        "Output rate of the NMEA-GX-PUBX00 message on port UART1">>,
      <<"CFG-MSGOUT-PUBX_ID_POLYP_UART2", 546373870, "U1", 1, "",
        "Output rate of the NMEA-GX-PUBX00 message on port UART2">>,
      <<"CFG-MSGOUT-PUBX_ID_POLYP_USB", 546373871, "U1", 1, "",
        "Output rate of the NMEA-GX-PUBX00 message on port USB">>,
      <<"CFG-MSGOUT-PUBX_ID_POLYP_SPI", 546373872, "U1", 1, "",
        "Output rate of the NMEA-GX-PUBX00 message on port SPI">>,
      <<"CFG-MSGOUT-PUBX_ID_POLYS_I2C", 546373873, "U1", 1, "",
        "Output rate of the NMEA-GX-PUBX03 message on port I2C">>,
      <<"CFG-MSGOUT-PUBX_ID_POLYS_UART1", 546373874, "U1", 1, "",
        "Output rate of the NMEA-GX-PUBX03 message on port UART1">>,
      <<"CFG-MSGOUT-PUBX_ID_POLYS_UART2", 546373875, "U1", 1, "",
        "Output rate of the NMEA-GX-PUBX03 message on port UART2">>,
      <<"CFG-MSGOUT-PUBX_ID_POLYS_USB", 546373876, "U1", 1, "",
        "Output rate of the NMEA-GX-PUBX03 message on port USB">>,
      <<"CFG-MSGOUT-PUBX_ID_POLYS_SPI", 546373877, "U1", 1, "",
        "Output rate of the NMEA-GX-PUBX03 message on port SPI">>,
      <<"CFG-MSGOUT-PUBX_ID_POLYT_I2C", 546373878, "U1", 1, "",
        "Output rate of the NMEA-GX-PUBX04 message on port I2C">>,
      <<"CFG-MSGOUT-PUBX_ID_POLYT_UART1", 546373879, "U1", 1, "",
        "Output rate of the NMEA-GX-PUBX04 message on port UART1">>,
      <<"CFG-MSGOUT-PUBX_ID_POLYT_UART2", 546373880, "U1", 1, "",
        "Output rate of the NMEA-GX-PUBX04 message on port UART2">>,
      <<"CFG-MSGOUT-PUBX_ID_POLYT_USB", 546373881, "U1", 1, "",
        "Output rate of the NMEA-GX-PUBX04 message on port USB">>,
      <<"CFG-MSGOUT-PUBX_ID_POLYT_SPI", 546373882, "U1", 1, "",
        "Output rate of the NMEA-GX-PUBX04 message on port SPI">>,
      <<"CFG-MSGOUT-RTCM_3X_TYPE1005_I2C", 546374333, "U1", 1, "",
        "Output rate of the RTCM-3X-TYPE1005 message on port I2C">>,
      <<"CFG-MSGOUT-RTCM_3X_TYPE1005_UART1", 546374334, "U1", 1, "",
        "Output rate of the RTCM-3X-TYPE1005 message on port UART1">>,
      <<"CFG-MSGOUT-RTCM_3X_TYPE1005_UART2", 546374335, "U1", 1, "",
        "Output rate of the RTCM-3X-TYPE1005 message on port UART2">>,
      <<"CFG-MSGOUT-RTCM_3X_TYPE1005_USB", 546374336, "U1", 1, "",
        "Output rate of the RTCM-3X-TYPE1005 message on port USB">>,
      <<"CFG-MSGOUT-RTCM_3X_TYPE1005_SPI", 546374337, "U1", 1, "",
        "Output rate of the RTCM-3X-TYPE1005 message on port SPI">>,
      <<"CFG-MSGOUT-RTCM_3X_TYPE1077_I2C", 546374348, "U1", 1, "",
        "Output rate of the RTCM-3X-TYPE1077 message on port I2">>,
      <<"CFG-MSGOUT-RTCM_3X_TYPE1077_UART1", 546374349, "U1", 1, "",
        "Output rate of the RTCM-3X-TYPE1077 message on port UART1">>,
      <<"CFG-MSGOUT-RTCM_3X_TYPE1077_UART2", 546374350, "U1", 1, "",
        "Output rate of the RTCM-3X-TYPE1077 message on port UART2">>,
      <<"CFG-MSGOUT-RTCM_3X_TYPE1077_USB", 546374351, "U1", 1, "",
        "Output rate of the RTCM-3X-TYPE1077 message on port USB">>,
      <<"CFG-MSGOUT-RTCM_3X_TYPE1077_SPI", 546374352, "U1", 1, "",
        "Output rate of the RTCM-3X-TYPE1077 message on port SPI">>,
      <<"CFG-MSGOUT-RTCM_3X_TYPE1087_I2C", 546374353, "U1", 1, "",
        "Output rate of the RTCM-3X-TYPE1087 message on port I2C">>,
      <<"CFG-MSGOUT-RTCM_3X_TYPE1087_UART1", 546374354, "U1", 1, "",
        "Output rate of the RTCM-3X-TYPE1087 message on port UART1">>,
      <<"CFG-MSGOUT-RTCM_3X_TYPE1087_UART2", 546374355, "U1", 1, "",
        "Output rate of the RTCM-3X-TYPE1087 message on port UART2">>,
      <<"CFG-MSGOUT-RTCM_3X_TYPE1087_USB", 546374356, "U1", 1, "",
        "Output rate of the RTCM-3X-TYPE1087 message on port USB">>,
      <<"CFG-MSGOUT-RTCM_3X_TYPE1087_SPI", 546374357, "U1", 1, "",
        "Output rate of the RTCM-3X-TYPE1087 message on port SPI">>,
      <<"CFG-MSGOUT-RTCM_3X_TYPE1127_I2C", 546374358, "U1", 1, "",
        "Output rate of the RTCM-3X-TYPE1127 message on port I2C">>,
      <<"CFG-MSGOUT-RTCM_3X_TYPE1127_UART1", 546374359, "U1", 1, "",
        "Output rate of the RTCM-3X-TYPE1127 message on port UART1">>,
      <<"CFG-MSGOUT-RTCM_3X_TYPE1127_UART2", 546374360, "U1", 1, "",
        "Output rate of the RTCM-3X-TYPE1127 message on port UART2">>,
      <<"CFG-MSGOUT-RTCM_3X_TYPE1127_USB", 546374361, "U1", 1, "",
        "Output rate of the RTCM-3X-TYPE1127 message on port USB">>,
      <<"CFG-MSGOUT-RTCM_3X_TYPE1127_SPI", 546374362, "U1", 1, "",
        "Output rate of the RTCM-3X-TYPE1127 message on port SPI">>,
      <<"CFG-MSGOUT-RTCM_3X_TYPE4072_0_I2C", 546374398, "U1", 1, "",
        "Output rate of RTCM-3X-TYPE4072, sub-type 0 on port I2C">>,
      <<"CFG-MSGOUT-RTCM_3X_TYPE4072_0_UART1", 546374399, "U1", 1, "",
        "Output rate of RTCM-3X-TYPE4072, sub-type 0 message on port UART1">>,
      <<"CFG-MSGOUT-RTCM_3X_TYPE4072_0_UART2", 546374400, "U1", 1, "",
        "Output rate of RTCM-3X-TYPE4072, sub-type 0 message on port UART2">>,
      <<"CFG-MSGOUT-RTCM_3X_TYPE4072_0_USB", 546374401, "U1", 1, "",
        "Output rate of RTCM-3X-TYPE4072, sub-type 0 message on port USB">>,
      <<"CFG-MSGOUT-RTCM_3X_TYPE4072_0_SPI", 546374402, "U1", 1, "",
        "Output rate of RTCM-3X-TYPE4072, sub-type 0 message on port SPI">>,
      <<"CFG-MSGOUT-RTCM_3X_TYPE1230_I2C", 546374403, "U1", 1, "",
        "Output rate of the RTCM-3X-TYPE1230 message on port I2C">>,
      <<"CFG-MSGOUT-RTCM_3X_TYPE1230_UART1", 546374404, "U1", 1, "",
        "Output rate of the RTCM-3X-TYPE1230 message on port UART1">>,
      <<"CFG-MSGOUT-RTCM_3X_TYPE1230_UART2", 546374405, "U1", 1, "",
        "Output rate of the RTCM-3X-TYPE1230 message on port UART2">>,
      <<"CFG-MSGOUT-RTCM_3X_TYPE1230_USB", 546374406, "U1", 1, "",
        "Output rate of the RTCM-3X-TYPE1230 message on port USB">>,
      <<"CFG-MSGOUT-RTCM_3X_TYPE1230_SPI", 546374407, "U1", 1, "",
        "Output rate of the RTCM-3X-TYPE1230 message on port SPI">>,
      <<"CFG-MSGOUT-RTCM_3X_TYPE1097_I2C", 546374424, "U1", 1, "",
        "Output rate of the RTCM-3X-TYPE1097 message on port I2C">>,
      <<"CFG-MSGOUT-RTCM_3X_TYPE1097_UART1", 546374425, "U1", 1, "",
        "Output rate of the RTCM-3X-TYPE1097 message on port UART1">>,
      <<"CFG-MSGOUT-RTCM_3X_TYPE1097_UART2", 546374426, "U1", 1, "",
        "Output rate of the RTCM-3X-TYPE1097 message on port UART2">>,
      <<"CFG-MSGOUT-RTCM_3X_TYPE1097_USB", 546374427, "U1", 1, "",
        "Output rate of the RTCM-3X-TYPE1097 message on port USB">>,
      <<"CFG-MSGOUT-RTCM_3X_TYPE1097_SPI", 546374428, "U1", 1, "",
        "Output rate of the RTCM-3X-TYPE1097 message on port SPI">>,
      <<"CFG-MSGOUT-RTCM_3X_TYPE1074_I2C", 546374494, "U1", 1, "",
        "Output rate of the RTCM-3X-TYPE1074 message on port I2C">>,
      <<"CFG-MSGOUT-RTCM_3X_TYPE1074_UART1", 546374495, "U1", 1, "",
        "Output rate of the RTCM-3X-TYPE1074 message on port UART1">>,
      <<"CFG-MSGOUT-RTCM_3X_TYPE1074_UART2", 546374496, "U1", 1, "",
        "Output rate of the RTCM-3X-TYPE1074 message on port UART2">>,
      <<"CFG-MSGOUT-RTCM_3X_TYPE1074_USB", 546374497, "U1", 1, "",
        "Output rate of the RTCM-3X-TYPE1074 message on port USB">>,
      <<"CFG-MSGOUT-RTCM_3X_TYPE1074_SPI", 546374498, "U1", 1, "",
        "Output rate of the RTCM-3X-TYPE1074 message on port SPI">>,
      <<"CFG-MSGOUT-RTCM_3X_TYPE1084_I2C", 546374499, "U1", 1, "",
        "Output rate of the RTCM-3X-TYPE1084 message on port I2C">>,
      <<"CFG-MSGOUT-RTCM_3X_TYPE1084_UART1", 546374500, "U1", 1, "",
        "Output rate of the RTCM-3X-TYPE1084 message on port UART1">>,
      <<"CFG-MSGOUT-RTCM_3X_TYPE1084_UART2", 546374501, "U1", 1, "",
        "Output rate of the RTCM-3X-TYPE1084 message on port UART2">>,
      <<"CFG-MSGOUT-RTCM_3X_TYPE1084_USB", 546374502, "U1", 1, "",
        "Output rate of the RTCM-3X-TYPE1084 message on port USB">>,
      <<"CFG-MSGOUT-RTCM_3X_TYPE1084_SPI", 546374503, "U1", 1, "",
        "Output rate of the RTCM-3X-TYPE1084 message on port SPI">>,
      <<"CFG-MSGOUT-RTCM_3X_TYPE1094_I2C", 546374504, "U1", 1, "",
        "Output rate of the RTCM-3X-TYPE1094 message on port I2C">>,
      <<"CFG-MSGOUT-RTCM_3X_TYPE1094_UART1", 546374505, "U1", 1, "",
        "Output rate of the RTCM-3X-TYPE1094 message on port UART1">>,
      <<"CFG-MSGOUT-RTCM_3X_TYPE1094_UART2", 546374506, "U1", 1, "",
        "Output rate of the RTCM-3X-TYPE1094 message on port UART2">>,
      <<"CFG-MSGOUT-RTCM_3X_TYPE1094_USB", 546374507, "U1", 1, "",
        "Output rate of the RTCM-3X-TYPE1094 message on port USB">>,
      <<"CFG-MSGOUT-RTCM_3X_TYPE1094_SPI", 546374508, "U1", 1, "",
        "Output rate of the RTCM-3X-TYPE1094 message on port SPI">>,
      <<"CFG-MSGOUT-RTCM_3X_TYPE1124_I2C", 546374509, "U1", 1, "",
        "Output rate of the RTCM-3X-TYPE1124 message on port I2C">>,
      <<"CFG-MSGOUT-RTCM_3X_TYPE1124_UART1", 546374510, "U1", 1, "",
        "Output rate of the RTCM-3X-TYPE1124 message on port UART1">>,
      <<"CFG-MSGOUT-RTCM_3X_TYPE1124_UART2", 546374511, "U1", 1, "",
        "Output rate of the RTCM-3X-TYPE1124 message on port UART2">>,
      <<"CFG-MSGOUT-RTCM_3X_TYPE1124_USB", 546374512, "U1", 1, "",
        "Output rate of the RTCM-3X-TYPE1124 message on port USB">>,
      <<"CFG-MSGOUT-RTCM_3X_TYPE1124_SPI", 546374513, "U1", 1, "",
        "Output rate of the RTCM-3X-TYPE1124 message on port SPI">>,
      <<"CFG-MSGOUT-RTCM_3X_TYPE4072_1_I2C", 546374529, "U1", 1, "",
        "Output rate of RTCM-3X-TYPE4072, sub-type 1 message on port I2C">>,
      <<"CFG-MSGOUT-RTCM_3X_TYPE4072_1_UART1", 546374530, "U1", 1, "",
        "Output rate of RTCM-3X-TYPE4072, sub-type 1 message on port UART1">>,
      <<"CFG-MSGOUT-RTCM_3X_TYPE4072_1_UART2", 546374531, "U1", 1, "",
        "Output rate of RTCM-3X-TYPE4072, sub-type 1 message on port UART2">>,
      <<"CFG-MSGOUT-RTCM_3X_TYPE4072_1_USB", 546374532, "U1", 1, "",
        "Output rate of RTCM-3X-TYPE4072, sub-type 1 message on port USB">>,
      <<"CFG-MSGOUT-RTCM_3X_TYPE4072_1_SPI", 546374533, "U1", 1, "",
        "Output rate of RTCM-3X-TYPE4072, sub-type 1 message on  port SPI">>,
      <<"CFG-MSGOUT-UBX_AID_INI_I2C", 546373883, "U1", 1, "",
        "Output rate of the UBX-AID-INI message on port I2C">>,
      <<"CFG-MSGOUT-UBX_AID_INI_UART1", 546373884, "U1", 1, "",
        "Output rate of the UBX-AID-INI message on port UART1">>,
      <<"CFG-MSGOUT-UBX_AID_INI_UART2", 546373885, "U1", 1, "",
        "Output rate of the UBX-AID-INI message on port UART2">>,
      <<"CFG-MSGOUT-UBX_AID_INI_USB", 546373886, "U1", 1, "",
        "Output rate of the UBX-AID-INI message on port USB">>,
      <<"CFG-MSGOUT-UBX_AID_INI_SPI", 546373887, "U1", 1, "",
        "Output rate of the UBX-AID-INI message on port SPI">>,
      <<"CFG-MSGOUT-UBX_AID_EPH_I2C", 546373988, "U1", 1, "",
        "Output rate of the UBX-AID-EPH message on port I2C">>,
      <<"CFG-MSGOUT-UBX_AID_EPH_UART1", 546373989, "U1", 1, "",
        "Output rate of the UBX-AID-EPH message on port UART1">>,
      <<"CFG-MSGOUT-UBX_AID_EPH_UART2", 546373990, "U1", 1, "",
        "Output rate of the UBX-AID-EPH message on port UART2">>,
      <<"CFG-MSGOUT-UBX_AID_EPH_USB", 546373991, "U1", 1, "",
        "Output rate of the UBX-AID-EPH message on port USB">>,
      <<"CFG-MSGOUT-UBX_AID_EPH_SPI", 546373992, "U1", 1, "",
        "Output rate of the UBX-AID-EPH message on port SPI">>,
      <<"CFG-MSGOUT-UBX_AID_ALM_I2C", 546373998, "U1", 1, "",
        "Output rate of the UBX-AID-ALM message on port I2C">>,
      <<"CFG-MSGOUT-UBX_AID_ALM_UART1", 546373999, "U1", 1, "",
        "Output rate of the UBX-AID-ALM message on port UART1">>,
      <<"CFG-MSGOUT-UBX_AID_ALM_UART2", 546374000, "U1", 1, "",
        "Output rate of the UBX-AID-ALM message on port UART2">>,
      <<"CFG-MSGOUT-UBX_AID_ALM_USB", 546374001, "U1", 1, "",
        "Output rate of the UBX-AID-ALM message on port USB">>,
      <<"CFG-MSGOUT-UBX_AID_ALM_SPI", 546374002, "U1", 1, "",
        "Output rate of the UBX-AID-ALM message on port SPI">>,
      <<"CFG-MSGOUT-UBX_AID_AOP_I2C", 546374253, "U1", 1, "",
        "Output rate of the UBX-AID-AOP message on port I2C">>,
      <<"CFG-MSGOUT-UBX_AID_AOP_UART1", 546374254, "U1", 1, "",
        "Output rate of the UBX-AID-AOP message on port UART1">>,
      <<"CFG-MSGOUT-UBX_AID_AOP_UART2", 546374255, "U1", 1, "",
        "Output rate of the UBX-AID-AOP message on port UART2">>,
      <<"CFG-MSGOUT-UBX_AID_AOP_USB", 546374256, "U1", 1, "",
        "Output rate of the UBX-AID-AOP message on port USB">>,
      <<"CFG-MSGOUT-UBX_AID_AOP_SPI", 546374257, "U1", 1, "",
        "Output rate of the UBX-AID-AOP message on port SPI">>,
      <<"CFG-MSGOUT-UBX_ESF_STATUS_I2C", 546373893, "U1", 1, "",
        "Output rate of the UBX-ESF-STATUS message on port I2C">>,
      <<"CFG-MSGOUT-UBX_ESF_STATUS_UART1", 546373894, "U1", 1, "",
        "Output rate of the UBX-ESF-STATUS message on port UART1">>,
      <<"CFG-MSGOUT-UBX_ESF_STATUS_UART2", 546373895, "U1", 1, "",
        "Output rate of the UBX-ESF-STATUS message on port UART2">>,
      <<"CFG-MSGOUT-UBX_ESF_STATUS_USB", 546373896, "U1", 1, "",
        "Output rate of the UBX-ESF-STATUS message on port USB">>,
      <<"CFG-MSGOUT-UBX_ESF_STATUS_SPI", 546373897, "U1", 1, "",
        "Output rate of the UBX-ESF-STATUS message on port SPI">>,
      <<"CFG-MSGOUT-UBX_ESF_ALG_I2C", 546373903, "U1", 1, "",
        "Output rate of the UBX-ESF-ALG message on port I2C">>,
      <<"CFG-MSGOUT-UBX_ESF_ALG_UART1", 546373904, "U1", 1, "",
        "Output rate of the UBX_ESF_ALG message on port UART1">>,
      <<"CFG-MSGOUT-UBX_ESF_ALG_UART2", 546373905, "U1", 1, "",
        "Output rate of the UBX_ESF_ALG message on port UART2">>,
      <<"CFG-MSGOUT-UBX_ESF_ALG_USB", 546373906, "U1", 1, "",
        "Output rate of the UBX_ESF_ALG message on port USB">>,
      <<"CFG-MSGOUT-UBX_ESF_ALG_SPI", 546373907, "U1", 1, "",
        "Output rate of the UBX_ESF_ALG message on port SPI">>,
      <<"CFG-MSGOUT-UBX_ESF_INS_I2C", 546373908, "U1", 1, "",
        "Output rate of the UBX-ESF-INS message on port I2C">>,
      <<"CFG-MSGOUT-UBX_ESF_INS_UART1", 546373909, "U1", 1, "",
        "Output rate of the UBX_ESF_INS message on port UART1">>,
      <<"CFG-MSGOUT-UBX_ESF_INS_UART2", 546373910, "U1", 1, "",
        "Output rate of the UBX_ESF_INS message on port UART2">>,
      <<"CFG-MSGOUT-UBX_ESF_INS_USB", 546373911, "U1", 1, "",
        "Output rate of the UBX_ESF_INS message on port USB">>,
      <<"CFG-MSGOUT-UBX_ESF_INS_SPI", 546373912, "U1", 1, "",
        "Output rate of the UBX_ESF_INS message on port SPI">>,
      <<"CFG-MSGOUT-UBX_ESF_INS_I2C", 546373908, "U1", 1, "",
        "Output rate of the UBX-ESF-INS message on port I2C">>,
      <<"CFG-MSGOUT-UBX_ESF_INS_UART1", 546373909, "U1", 1, "",
        "Output rate of the UBX_ESF_INS message on port UART1">>,
      <<"CFG-MSGOUT-UBX_ESF_INS_UART2", 546373910, "U1", 1, "",
        "Output rate of the UBX_ESF_INS message on port UART2">>,
      <<"CFG-MSGOUT-UBX_ESF_INS_USB", 546373911, "U1", 1, "",
        "Output rate of the UBX_ESF_INS message on port USB">>,
      <<"CFG-MSGOUT-UBX_ESF_INS_SPI", 546373912, "U1", 1, "",
        "Output rate of the UBX_ESF_INS message on port SPI">>,
      <<"CFG-MSGOUT-UBX_ESF_MEAS_I2C", 546374263, "U1", 1, "",
        "Output rate of the UBX-ESF-MEAS message on port I2C">>,
      <<"CFG-MSGOUT-UBX_ESF_MEAS_UART1", 546374264, "U1", 1, "",
        "Output rate of the UBX-ESF-MEAS message on port UART1">>,
      <<"CFG-MSGOUT-UBX_ESF_MEAS_UART2", 546374265, "U1", 1, "",
        "Output rate of the UBX-ESF-MEAS message on port UART2">>,
      <<"CFG-MSGOUT-UBX_ESF_MEAS_USB", 546374266, "U1", 1, "",
        "Output rate of the UBX-ESF-MEAS message on port USB">>,
      <<"CFG-MSGOUT-UBX_ESF_MEAS_SPI", 546374267, "U1", 1, "",
        "Output rate of the UBX-ESF_MEAS message on port SPI">>,
      <<"CFG-MSGOUT-UBX_ESF_RAW_I2C", 546374303, "U1", 1, "",
        "Output rate of the UBX-ESF-RAW message on port I2C">>,
      <<"CFG-MSGOUT-UBX_ESF_RAW_UART1", 546374304, "U1", 1, "",
        "Output rate of the UBX-ESF-RAW message on port UART1">>,
      <<"CFG-MSGOUT-UBX_ESF_RAW_UART2", 546374305, "U1", 1, "",
        "Output rate of the UBX-ESF-RAW message on port UART2">>,
      <<"CFG-MSGOUT-UBX_ESF_RAW_USB", 546374306, "U1", 1, "",
        "Output rate of the UBX-ESF-RAW message on port USB">>,
      <<"CFG-MSGOUT-UBX_ESF_RAW_SPI", 546374307, "U1", 1, "",
        "Output rate of the UBX-ESF_RAW message on port SPI">>,
      <<"CFG-MSGOUT-UBX_ESF_CAL_I2C", 546375340, "U1", 1, "",
        "Output rate of the UBX-ESF-CAL message on port I2C">>,
      <<"CFG-MSGOUT-UBX_ESF_CAL_UART1", 546375341, "U1", 1, "",
        "Output rate of the UBX_ESF_CAL message on port UART1">>,
      <<"CFG-MSGOUT-UBX_ESF_CAL_UART2", 546375342, "U1", 1, "",
        "Output rate of the UBX_ESF_CAL message on port UART2">>,
      <<"CFG-MSGOUT-UBX_ESF_CAL_USB", 546375343, "U1", 1, "",
        "Output rate of the UBX_ESF_CAL message on port USB">>,
      <<"CFG-MSGOUT-UBX_ESF_CAL_SPI", 546375344, "U1", 1, "",
        "Output rate of the UBX_ESF_CAL message on port SPI">>,
      <<"CFG-MSGOUT-UBX_HNR_PVT_I2C", 546374283, "U1", 1, "",
        "Output rate of the UBX-HNR_PVT message on port I2C">>,
      <<"CFG-MSGOUT-UBX_HNR_PVT_UART1", 546374284, "U1", 1, "",
        "Output rate of the UBX-HNR_PVT message on port UART1">>,
      <<"CFG-MSGOUT-UBX_HNR_PVT_UART2", 546374285, "U1", 1, "",
        "Output rate of the UBX-HNR_PVT message on port UART2">>,
      <<"CFG-MSGOUT-UBX_HNR_PVT_USB", 546374286, "U1", 1, "",
        "Output rate of the UBX-HNR_PVT message on port USB">>,
      <<"CFG-MSGOUT-UBX_HNR_PVT_SPI", 546374287, "U1", 1, "",
        "Output rate of the UBX-HNR_PVT message on port SPI">>,
      <<"CFG-MSGOUT-UBX_HNR_INS_I2C", 546374514, "U1", 1, "",
        "Output rate of the UBX-HNR_INS message on port I2C">>,
      <<"CFG-MSGOUT-UBX_HNR_INS_UART1", 546374515, "U1", 1, "",
        "Output rate of the UBX-HNR_INS message on port UART1">>,
      <<"CFG-MSGOUT-UBX_HNR_INS_UART2", 546374516, "U1", 1, "",
        "Output rate of the UBX-HNR_INS message on port UART2">>,
      <<"CFG-MSGOUT-UBX_HNR_INS_USB", 546374517, "U1", 1, "",
        "Output rate of the UBX-HNR_INS message on port USB">>,
      <<"CFG-MSGOUT-UBX_HNR_INS_SPI", 546374518, "U1", 1, "",
        "Output rate of the UBX-HNR_INS message on port SPI">>,
      <<"CFG-MSGOUT-UBX_HNR_ATT_I2C", 546374519, "U1", 1, "",
        "Output rate of the UBX-HNR_ATT message on port I2C">>,
      <<"CFG-MSGOUT-UBX_HNR_ATT_UART1", 546374520, "U1", 1, "",
        "Output rate of the UBX-HNR_ATT message on port UART1">>,
      <<"CFG-MSGOUT-UBX_HNR_ATT_UART2", 546374521, "U1", 1, "",
        "Output rate of the UBX-HNR_ATT message on port UART2">>,
      <<"CFG-MSGOUT-UBX_HNR_ATT_USB", 546374522, "U1", 1, "",
        "Output rate of the UBX-HNR_ATT message on port USB">>,
      <<"CFG-MSGOUT-UBX_HNR_ATT_SPI", 546374523, "U1", 1, "",
        "Output rate of the UBX-HNR_ATT message on port SPI">>,
      <<"CFG-MSGOUT-UBX_LOG_INFO_I2C", 546374233, "U1", 1, "",
        "Output rate of the UBX-LOG-INFO message on port I2C">>,
      <<"CFG-MSGOUT-UBX_LOG_INFO_UART1", 546374234, "U1", 1, "",
        "Output rate of the UBX-LOG-INFO message on port UART1">>,
      <<"CFG-MSGOUT-UBX_LOG_INFO_UART2", 546374235, "U1", 1, "",
        "Output rate of the UBX-LOG-INFO message on port UART2">>,
      <<"CFG-MSGOUT-UBX_LOG_INFO_USB", 546374236, "U1", 1, "",
        "Output rate of the UBX-LOG-INFO message on port USB">>,
      <<"CFG-MSGOUT-UBX_LOG_INFO_SPI", 546374237, "U1", 1, "",
        "Output rate of the UBX-LOG-INFO message on port SPI">>,
      <<"CFG-MSGOUT-UBX_RXM_RLM_I2C", 546374238, "U1", 1, "",
        "Output rate of the UBX-RXM-RLM message on port I2C">>,
      <<"CFG-MSGOUT-UBX_RXM_RLM_UART1", 546374239, "U1", 1, "",
        "Output rate of the UBX-RXM-RLM message on port UART1">>,
      <<"CFG-MSGOUT-UBX_RXM_RLM_UART2", 546374240, "U1", 1, "",
        "Output rate of the UBX-RXM-RLM message on port UART2">>,
      <<"CFG-MSGOUT-UBX_RXM_RLM_USB", 546374241, "U1", 1, "",
        "Output rate of the UBX-RXM-RLM message on port USB">>,
      <<"CFG-MSGOUT-UBX_RXM_RLM_SPI", 546374242, "U1", 1, "",
        "Output rate of the UBX-RXM-RLM message on port SPI">>,
      <<"CFG-MSGOUT-UBX_RXM_RTCM_I2C", 546374248, "U1", 1, "",
        "Output rate of the UBX-RXM-RTCM message on port I2C">>,
      <<"CFG-MSGOUT-UBX_RXM_RTCM_UART1", 546374249, "U1", 1, "",
        "Output rate of the UBX-RXM-RTCM message on port UART1">>,
      <<"CFG-MSGOUT-UBX_RXM_RTCM_UART2", 546374250, "U1", 1, "",
        "Output rate of the UBX-RXM-RTCM message on port UART2">>,
      <<"CFG-MSGOUT-UBX_RXM_RTCM_USB", 546374251, "U1", 1, "",
        "Output rate of the UBX-RXM-RTCM message on port USB">>,
      <<"CFG-MSGOUT-UBX_RXM_RTCM_SPI", 546374252, "U1", 1, "",
        "Output rate of the UBX-RXM-RTCM message on port SPI">>,
      <<"CFG-MSGOUT-UBX_RXM_RTCM_USB", 546374251, "U1", 1, "",
        "Output rate of the UBX-RXM-RTCM message on port USB">>,
      <<"CFG-MSGOUT-UBX_RXM_RAWX_I2C", 546374308, "U1", 1, "",
        "Output rate of the UBX-RXM-RAWX message on port I2C">>,
      <<"CFG-MSGOUT-UBX_RXM_RAWX_UART1", 546374309, "U1", 1, "",
        "Output rate of the UBX-RXM-RAWX message on port UART1">>,
      <<"CFG-MSGOUT-UBX_RXM_RAWX_UART2", 546374310, "U1", 1, "",
        "Output rate of the UBX-RXM-RAWX message on port UART2">>,
      <<"CFG-MSGOUT-UBX_RXM_RAWX_USB", 546374311, "U1", 1, "",
        "Output rate of the UBX-RXM-RAWX message on port USB">>,
      <<"CFG-MSGOUT-UBX_RXM_RAWX_SPI", 546374312, "U1", 1, "",
        "Output rate of the UBX-RXM-RAWX message on port SPI">>,
      <<"CFG-MSGOUT-UBX_MON_SYS_I2C", 546375325, "U1", 1, "",
        "Output rate of the UBX-MON-SYS message on port I2C">>,
      <<"CFG-MSGOUT-UBX_MON_SYS_UART1", 546375326, "U1", 1, "",
        "Output rate of the UBX-MON-SYS message on port UART1">>,
      <<"CFG-MSGOUT-UBX_MON_SYS_UART2", 546375327, "U1", 1, "",
        "Output rate of the UBX-MON-SYS message on port UART2">>,
      <<"CFG-MSGOUT-UBX_MON_SYS_USB", 546375328, "U1", 1, "",
        "Output rate of the UBX-MON-SYS message on port USB">>,
      <<"CFG-MSGOUT-UBX_MON_SYS_SPI", 546375329, "U1", 1, "",
        "Output rate of the UBX-MON-SYS message on port SPI">>,
      <<"CFG-MSGOUT-UBX_MON_RXR_I2C", 546374023, "U1", 1, "",
        "Output rate of the UBX-MON-RXR message on port I2C">>,
      <<"CFG-MSGOUT-UBX_MON_RXR_UART1", 546374024, "U1", 1, "",
        "Output rate of the UBX-MON-RXR message on port UART1">>,
      <<"CFG-MSGOUT-UBX_MON_RXR_UART2", 546374025, "U1", 1, "",
        "Output rate of the UBX-MON-RXR message on port UART2">>,
      <<"CFG-MSGOUT-UBX_MON_RXR_USB", 546374026, "U1", 1, "",
        "Output rate of the UBX-MON-RXR message on port USB">>,
      <<"CFG-MSGOUT-UBX_MON_RXR_SPI", 546374027, "U1", 1, "",
        "Output rate of the UBX-MON-RXR message on port SPI">>,
      <<"CFG-MSGOUT-UBX_MON_MSGPP_I2C", 546374038, "U1", 1, "",
        "Output rate of the UBX-MON-MSGPP message on port I2C">>,
      <<"CFG-MSGOUT-UBX_MON_MSGPP_UART1", 546374039, "U1", 1, "",
        "Output rate of the UBX-MON-MSGPP message on port UART1">>,
      <<"CFG-MSGOUT-UBX_MON_MSGPP_UART2", 546374040, "U1", 1, "",
        "Output rate of the UBX-MON-MSGPP message on port UART2">>,
      <<"CFG-MSGOUT-UBX_MON_MSGPP_USB", 546374041, "U1", 1, "",
        "Output rate of the UBX-MON-MSGPP message on port USB">>,
      <<"CFG-MSGOUT-UBX_MON_MSGPP_SPI", 546374042, "U1", 1, "",
        "Output rate of the UBX-MON-MSGPP message on port SPI">>,
      <<"CFG-MSGOUT-UBX_MON_TXBUF_I2C", 546374043, "U1", 1, "",
        "Output rate of the UBX-MON-TXBUF message on port I2C">>,
      <<"CFG-MSGOUT-UBX_MON_TXBUF_UART1", 546374044, "U1", 1, "",
        "Output rate of the UBX-MON-TXBUF message on port UART1">>,
      <<"CFG-MSGOUT-UBX_MON_TXBUF_UART2", 546374045, "U1", 1, "",
        "Output rate of the UBX-MON-TXBUF message on port UART2">>,
      <<"CFG-MSGOUT-UBX_MON_TXBUF_USB", 546374046, "U1", 1, "",
        "Output rate of the UBX-MON-TXBUF message on port USB">>,
      <<"CFG-MSGOUT-UBX_MON_TXBUF_SPI", 546374047, "U1", 1, "",
        "Output rate of the UBX-MON-TXBUF message on port SPI">>,
      <<"CFG-MSGOUT-UBX_MON_RXBUF_I2C", 546374048, "U1", 1, "",
        "Output rate of the UBX-MON-RXBUF message on port I2C">>,
      <<"CFG-MSGOUT-UBX_MON_RXBUF_UART1", 546374049, "U1", 1, "",
        "Output rate of the UBX-MON-RXBUF message on port UART1">>,
      <<"CFG-MSGOUT-UBX_MON_RXBUF_UART2", 546374050, "U1", 1, "",
        "Output rate of the UBX-MON-RXBUF message on port UART2">>,
      <<"CFG-MSGOUT-UBX_MON_RXBUF_USB", 546374051, "U1", 1, "",
        "Output rate of the UBX-MON-RXBUF message on port USB">>,
      <<"CFG-MSGOUT-UBX_MON_RXBUF_SPI", 546374052, "U1", 1, "",
        "Output rate of the UBX-MON-RXBUF message on port SPI">>,
      <<"CFG-MSGOUT-UBX_MON_IO_I2C", 546374053, "U1", 1, "",
        "Output rate of the UBX-MON-IO message on port I2C">>,
      <<"CFG-MSGOUT-UBX_MON_IO_UART1", 546374054, "U1", 1, "",
        "Output rate of the UBX-MON-IO message on port UART1">>,
      <<"CFG-MSGOUT-UBX_MON_IO_UART2", 546374055, "U1", 1, "",
        "Output rate of the UBX-MON-IO message on port UART2">>,
      <<"CFG-MSGOUT-UBX_MON_IO_USB", 546374056, "U1", 1, "",
        "Output rate of the UBX-MON-IO message on port USB">>,
      <<"CFG-MSGOUT-UBX_MON_IO_SPI", 546374057, "U1", 1, "",
        "Output rate of the UBX-MON-IO message on port SPI">>,
      <<"CFG-MSGOUT-UBX_MON_HW_I2C", 546374068, "U1", 1, "",
        "Output rate of the UBX-MON-HW message on port I2C">>,
      <<"CFG-MSGOUT-UBX_MON_HW_UART1", 546374069, "U1", 1, "",
        "Output rate of the UBX-MON-HW message on port UART1">>,
      <<"CFG-MSGOUT-UBX_MON_HW_UART2", 546374070, "U1", 1, "",
        "Output rate of the UBX-MON-HW message on port UART2">>,
      <<"CFG-MSGOUT-UBX_MON_HW_USB", 546374071, "U1", 1, "",
        "Output rate of the UBX-MON-HW message on port USB">>,
      <<"CFG-MSGOUT-UBX_MON_HW_SPI", 546374072, "U1", 1, "",
        "Output rate of the UBX-MON-HW message on port SPI">>,
      <<"CFG-MSGOUT-UBX_MON_HW2_I2C", 546374073, "U1", 1, "",
        "Output rate of the UBX-MON-HW2 message on port I2C">>,
      <<"CFG-MSGOUT-UBX_MON_HW2_UART1", 546374074, "U1", 1, "",
        "Output rate of the UBX-MON-HW2 message on port UART1">>,
      <<"CFG-MSGOUT-UBX_MON_HW2_UART2", 546374075, "U1", 1, "",
        "Output rate of the UBX-MON-HW2 message on port UART2">>,
      <<"CFG-MSGOUT-UBX_MON_HW2_USB", 546374076, "U1", 1, "",
        "Output rate of the UBX-MON-HW2 message on port USB">>,
      <<"CFG-MSGOUT-UBX_MON_HW2_SPI", 546374077, "U1", 1, "",
        "Output rate of the UBX-MON-HW2 message on port SPI">>,
      <<"CFG-MSGOUT-UBX_MON_PMP_I2C", 546374434, "U1", 1, "",
        "Output rate of the UBX-MON-PMP message on port I2C">>,
      <<"CFG-MSGOUT-UBX_MON_PMP_UART1", 546374435, "U1", 1, "",
        "Output rate of the UBX-MON-PMP message on port UART1">>,
      <<"CFG-MSGOUT-UBX_MON_PMP_UART2", 546374436, "U1", 1, "",
        "Output rate of the UBX-MON-PMP message on port UART2">>,
      <<"CFG-MSGOUT-UBX_MON_PMP_USB", 546374437, "U1", 1, "",
        "Output rate of the UBX-MON-PMP message on port USB">>,
      <<"CFG-MSGOUT-UBX_MON_PMP_SPI", 546374438, "U1", 1, "",
        "Output rate of the UBX-MON-PMP message on port SPI">>,
      <<"CFG-MSGOUT-UBX_MON_COMMS_I2C", 546374479, "U1", 1, "",
        "Output rate of the UBX-MON-COMMS message on port I2C">>,
      <<"CFG-MSGOUT-UBX_MON_COMMS_UART1", 546374480, "U1", 1, "",
        "Output rate of the UBX-MON-COMMS message on port UART1">>,
      <<"CFG-MSGOUT-UBX_MON_COMMS_UART2", 546374481, "U1", 1, "",
        "Output rate of the UBX-MON-COMMS message on port UART2">>,
      <<"CFG-MSGOUT-UBX_MON_COMMS_USB", 546374482, "U1", 1, "",
        "Output rate of the UBX-MON-COMMS message on port USB">>,
      <<"CFG-MSGOUT-UBX_MON_COMMS_SPI", 546374483, "U1", 1, "",
        "Output rate of the UBX-MON-COMMS message on port SPI">>,
      <<"CFG-MSGOUT-UBX_MON_HW3_I2C", 546374484, "U1", 1, "",
        "Output rate of the UBX-MON-HW3 message on port I2C">>,
      <<"CFG-MSGOUT-UBX_MON_HW3_UART1", 546374485, "U1", 1, "",
        "Output rate of the UBX-MON-HW3 message on port UART1">>,
      <<"CFG-MSGOUT-UBX_MON_HW3_UART2", 546374486, "U1", 1, "",
        "Output rate of the UBX-MON-HW3 message on port UART2">>,
      <<"CFG-MSGOUT-UBX_MON_HW3_USB", 546374487, "U1", 1, "",
        "Output rate of the UBX-MON-HW3 message on port USB">>,
      <<"CFG-MSGOUT-UBX_MON_HW3_SPI", 546374488, "U1", 1, "",
        "Output rate of the UBX-MON-HW3 message on port SPI">>,
      <<"CFG-MSGOUT-UBX_MON_RF_I2C", 546374489, "U1", 1, "",
        "Output rate of the UBX-MON-RF message on port I2C">>,
      <<"CFG-MSGOUT-UBX_MON_RF_UART1", 546374490, "U1", 1, "",
        "Output rate of the UBX-MON-RF message on port UART1">>,
      <<"CFG-MSGOUT-UBX_MON_RF_UART2", 546374491, "U1", 1, "",
        "Output rate of the UBX-MON-RF message on port UART2">>,
      <<"CFG-MSGOUT-UBX_MON_RF_USB", 546374492, "U1", 1, "",
        "Output rate of the UBX-MON-RF message on port USB">>,
      <<"CFG-MSGOUT-UBX_MON_RF_SPI", 546374493, "U1", 1, "",
        "Output rate of the UBX-MON-RF message on port SPI">>,
      <<"CFG-MSGOUT-UBX_MON_SPAN_I2C", 546374539, "U1", 1, "",
        "Output rate of the UBX-MON-SPAN message on port I2C">>,
      <<"CFG-MSGOUT-UBX_MON_SPAN_UART1", 546374540, "U1", 1, "",
        "Output rate of the UBX-MON-SPAN message on port UART1">>,
      <<"CFG-MSGOUT-UBX_MON_SPAN_UART2", 546374541, "U1", 1, "",
        "Output rate of the UBX-MON-SPAN message on port UART2">>,
      <<"CFG-MSGOUT-UBX_MON_SPAN_USB", 546374542, "U1", 1, "",
        "Output rate of the UBX-MON-SPAN message on port USB">>,
      <<"CFG-MSGOUT-UBX_MON_SPAN_SPI", 546374543, "U1", 1, "",
        "Output rate of the UBX-MON-SPAN message on port SPI">>,
      <<"CFG-MSGOUT-UBX_MON_INST_I2C", 546374603, "U1", 1, "",
        "Output rate of the UBX-MON-INST message on port I2C">>,
      <<"CFG-MSGOUT-UBX_MON_INST_UART1", 546374604, "U1", 1, "",
        "Output rate of the UBX-MON-INST message on port UART1">>,
      <<"CFG-MSGOUT-UBX_MON_INST_UART2", 546374605, "U1", 1, "",
        "Output rate of the UBX-MON-INST message on port UART2">>,
      <<"CFG-MSGOUT-UBX_MON_INST_USB", 546374606, "U1", 1, "",
        "Output rate of the UBX-MON-INST message on port USB">>,
      <<"CFG-MSGOUT-UBX_MON_INST_SPI", 546374607, "U1", 1, "",
        "Output rate of the UBX-MON-INST message on port SPI">>,
      <<"CFG-MSGOUT-UBX_NAV_SOL_I2C", 546373633, "U1", 1, "",
        "Output rate of the UBX-NAV-SOL message on port I2C">>,
      <<"CFG-MSGOUT-UBX_NAV_SOL_UART1", 546373634, "U1", 1, "",
        "Output rate of the UBX-NAV-SOL message on port UART1">>,
      <<"CFG-MSGOUT-UBX_NAV_SOL_UART2", 546373635, "U1", 1, "",
        "Output rate of the UBX-NAV-SOL message on port UART2">>,
      <<"CFG-MSGOUT-UBX_NAV_SOL_USB", 546373636, "U1", 1, "",
        "Output rate of the UBX-NAV-SOL message on port USB">>,
      <<"CFG-MSGOUT-UBX_NAV_SOL_SPI", 546373637, "U1", 1, "",
        "Output rate of the UBX-NAV-SOL message on port SPI">>,
      <<"CFG-MSGOUT-UBX_NAV_PVT_I2C", 546373638, "U1", 1, "",
        "Output rate of the UBX-NAV-PVT message on port I2C">>,
      <<"CFG-MSGOUT-UBX_NAV_PVT_UART1", 546373639, "U1", 1, "",
        "Output rate of the UBX-NAV-PVT message on port UART1">>,
      <<"CFG-MSGOUT-UBX_NAV_PVT_UART2", 546373640, "U1", 1, "",
        "Output rate of the UBX-NAV-PVT message on port UART2">>,
      <<"CFG-MSGOUT-UBX_NAV_PVT_USB", 546373641, "U1", 1, "",
        "Output rate of the UBX-NAV-PVT message on port USB">>,
      <<"CFG-MSGOUT-UBX_NAV_PVT_SPI", 546373642, "U1", 1, "",
        "Output rate of the UBX-NAV-PVT message on port SPI">>,
      <<"CFG-MSGOUT-UBX_NAV_SVINFO_I2C", 546373643, "U1", 1, "",
        "Output rate of the UBX-NAV-SVINFO message on port I2C">>,
      <<"CFG-MSGOUT-UBX_NAV_SVINFO_UART1", 546373644, "U1", 1, "",
        "Output rate of the UBX-NAV-SVINFO message on port UART1">>,
      <<"CFG-MSGOUT-UBX_NAV_SVINFO_UART2", 546373645, "U1", 1, "",
        "Output rate of the UBX-NAV-SVINFO message on port UART2">>,
      <<"CFG-MSGOUT-UBX_NAV_SVINFO_USB", 546373646, "U1", 1, "",
        "Output rate of the UBX-NAV-SVINFO message on port USB">>,
      <<"CFG-MSGOUT-UBX_NAV_SVINFO_SPI", 546373647, "U1", 1, "",
        "Output rate of the UBX-NAV-SVINFO message on port SPI">>,
      <<"CFG-MSGOUT-UBX_NAV_ORB_I2C", 546373648, "U1", 1, "",
        "Output rate of the UBX-NAV-ORB message on port I2C">>,
      <<"CFG-MSGOUT-UBX_NAV_ORB_UART1", 546373649, "U1", 1, "",
        "Output rate of the UBX-NAV-ORB message on port UART1">>,
      <<"CFG-MSGOUT-UBX_NAV_ORB_UART2", 546373650, "U1", 1, "",
        "Output rate of the UBX-NAV-ORB message on port UART2">>,
      <<"CFG-MSGOUT-UBX_NAV_ORB_USB", 546373651, "U1", 1, "",
        "Output rate of the UBX-NAV-ORB message on port USB">>,
      <<"CFG-MSGOUT-UBX_NAV_ORB_SPI", 546373652, "U1", 1, "",
        "Output rate of the UBX-NAV-ORB message on port SPI">>,
      <<"CFG-MSGOUT-UBX_NAV_SAT_I2C", 546373653, "U1", 1, "",
        "Output rate of the UBX-NAV-SAT message on port I2C">>,
      <<"CFG-MSGOUT-UBX_NAV_SAT_UART1", 546373654, "U1", 1, "",
        "Output rate of the UBX-NAV-SAT message on port UART1">>,
      <<"CFG-MSGOUT-UBX_NAV_SAT_UART2", 546373655, "U1", 1, "",
        "Output rate of the UBX-NAV-SAT message on port UART2">>,
      <<"CFG-MSGOUT-UBX_NAV_SAT_USB", 546373656, "U1", 1, "",
        "Output rate of the UBX-NAV-SAT message on port USB">>,
      <<"CFG-MSGOUT-UBX_NAV_SAT_SPI", 546373657, "U1", 1, "",
        "Output rate of the UBX-NAV-SAT message on port SPI">>,
      <<"CFG-MSGOUT-UBX_NAV_STATUS_I2C", 546373658, "U1", 1, "",
        "Output rate of the UBX-NAV-STATUS message on port I2C">>,
      <<"CFG-MSGOUT-UBX_NAV_STATUS_UART1", 546373659, "U1", 1, "",
        "Output rate of the UBX-NAV-STATUS message on port UART1">>,
      <<"CFG-MSGOUT-UBX_NAV_STATUS_UART2", 546373660, "U1", 1, "",
        "Output rate of the UBX-NAV-STATUS message on port UART2">>,
      <<"CFG-MSGOUT-UBX_NAV_STATUS_USB", 546373661, "U1", 1, "",
        "Output rate of the UBX-NAV-STATUS message on port USB">>,
      <<"CFG-MSGOUT-UBX_NAV_STATUS_SPI", 546373662, "U1", 1, "",
        "Output rate of the UBX-NAV-STATUS message on port SPI">>,
      <<"CFG-MSGOUT-UBX_NAV_ATT_I2C", 546373663, "U1", 1, "",
        "Output rate of the UBX-NAV-ATT message on port I2C">>,
      <<"CFG-MSGOUT-UBX_NAV_ATT_UART1", 546373664, "U1", 1, "",
        "Output rate of the UBX-NAV-ATT message on port UART1">>,
      <<"CFG-MSGOUT-UBX_NAV_ATT_UART2", 546373665, "U1", 1, "",
        "Output rate of the UBX-NAV-ATT message on port UART2">>,
      <<"CFG-MSGOUT-UBX_NAV_ATT_USB", 546373666, "U1", 1, "",
        "Output rate of the UBX-NAV-ATT message on port USB">>,
      <<"CFG-MSGOUT-UBX_NAV_ATT_SPI", 546373667, "U1", 1, "",
        "Output rate of the UBX-NAV-ATT message on port SPI">>,
      <<"CFG-MSGOUT-UBX_NAV_POSECEF_I2C", 546373668, "U1", 1, "",
        "Output rate of the UBX-NAV-POSECEF message on port I2C">>,
      <<"CFG-MSGOUT-UBX_NAV_POSECEF_UART1", 546373669, "U1", 1, "",
        "Output rate of the UBX-NAV-POSECEF message on port UART1">>,
      <<"CFG-MSGOUT-UBX_NAV_POSECEF_UART2", 546373670, "U1", 1, "",
        "Output rate of the UBX-NAV-POSECEF message on port UART2">>,
      <<"CFG-MSGOUT-UBX_NAV_POSECEF_USB", 546373671, "U1", 1, "",
        "Output rate of the UBX-NAV-POSECEF message on port USB">>,
      <<"CFG-MSGOUT-UBX_NAV_POSECEF_SPI", 546373672, "U1", 1, "",
        "Output rate of the UBX-NAV-POSECEF message on port SPI">>,
      <<"CFG-MSGOUT-UBX_NAV_POSLLH_I2C", 546373673, "U1", 1, "",
        "Output rate of the UBX-NAV-POSLLH message on port I2C">>,
      <<"CFG-MSGOUT-UBX_NAV_POSLLH_UART1", 546373674, "U1", 1, "",
        "Output rate of the UBX-NAV-POSLLH message on port UART1">>,
      <<"CFG-MSGOUT-UBX_NAV_POSLLH_UART2", 546373675, "U1", 1, "",
        "Output rate of the UBX-NAV-POSLLH message on port UART2">>,
      <<"CFG-MSGOUT-UBX_NAV_POSLLH_USB", 546373676, "U1", 1, "",
        "Output rate of the UBX-NAV-POSLLH message on port USB">>,
      <<"CFG-MSGOUT-UBX_NAV_POSLLH_SPI", 546373677, "U1", 1, "",
        "Output rate of the UBX-NAV-POSLLH message on port SPI">>,
      <<"CFG-MSGOUT-UBX_NAV_HPPOSECEF_I2C", 546373678, "U1", 1, "",
        "Output rate of the UBX-NAV-HPPOSECEF message on port I2C">>,
      <<"CFG-MSGOUT-UBX_NAV_HPPOSECEF_UART1", 546373679, "U1", 1, "",
        "Output rate of the UBX-NAV-HPPOSECEF message on port UART1">>,
      <<"CFG-MSGOUT-UBX_NAV_HPPOSECEF_UART2", 546373680, "U1", 1, "",
        "Output rate of the UBX-NAV-HPPOSECEF message on port UART2">>,
      <<"CFG-MSGOUT-UBX_NAV_HPPOSECEF_USB", 546373681, "U1", 1, "",
        "Output rate of the UBX-NAV-HPPOSECEF message on port USB">>,
      <<"CFG-MSGOUT-UBX_NAV_HPPOSECEF_SPI", 546373682, "U1", 1, "",
        "Output rate of the UBX-NAV-HPPOSECEF message on port SPI">>,
      <<"CFG-MSGOUT-UBX_NAV_HPPOSLLH_I2C", 546373683, "U1", 1, "",
        "Output rate of the UBX-NAV-HPPOSLLH message on port I2C">>,
      <<"CFG-MSGOUT-UBX_NAV_HPPOSLLH_UART1", 546373684, "U1", 1, "",
        "Output rate of the UBX-NAV-HPPOSLLH message on port UART1">>,
      <<"CFG-MSGOUT-UBX_NAV_HPPOSLLH_UART2", 546373685, "U1", 1, "",
        "Output rate of the UBX-NAV-HPPOSLLH message on port UART2">>,
      <<"CFG-MSGOUT-UBX_NAV_HPPOSLLH_USB", 546373686, "U1", 1, "",
        "Output rate of the UBX-NAV-HPPOSLLH message on port USB">>,
      <<"CFG-MSGOUT-UBX_NAV_HPPOSLLH_SPI", 546373687, "U1", 1, "",
        "Output rate of the UBX-NAV-HPPOSLLH message on port SPI">>,
      <<"CFG-MSGOUT-UBX_NAV_DOP_I2C", 546373688, "U1", 1, "",
        "Output rate of the UBX-NAV-DOP message on port I2C">>,
      <<"CFG-MSGOUT-UBX_NAV_DOP_UART1", 546373689, "U1", 1, "",
        "Output rate of the UBX-NAV-DOP message on port UART1">>,
      <<"CFG-MSGOUT-UBX_NAV_DOP_UART2", 546373690, "U1", 1, "",
        "Output rate of the UBX-NAV-DOP message on port UART2">>,
      <<"CFG-MSGOUT-UBX_NAV_DOP_USB", 546373691, "U1", 1, "",
        "Output rate of the UBX-NAV-DOP message on port USB">>,
      <<"CFG-MSGOUT-UBX_NAV_DOP_SPI", 546373692, "U1", 1, "",
        "Output rate of the UBX-NAV-DOP message on port SPI">>,
      <<"CFG-MSGOUT-UBX_NAV_VELECEF_I2C", 546373693, "U1", 1, "",
        "Output rate of the UBX-NAV-VELECEF message on port I2C">>,
      <<"CFG-MSGOUT-UBX_NAV_VELECEF_UART1", 546373694, "U1", 1, "",
        "Output rate of the UBX-NAV-VELECEF message on port UART1">>,
      <<"CFG-MSGOUT-UBX_NAV_VELECEF_UART2", 546373695, "U1", 1, "",
        "Output rate of the UBX-NAV-VELECEF message on port UART2">>,
      <<"CFG-MSGOUT-UBX_NAV_VELECEF_USB", 546373696, "U1", 1, "",
        "Output rate of the UBX-NAV-VELECEF message on port USB">>,
      <<"CFG-MSGOUT-UBX_NAV_VELECEF_SPI", 546373697, "U1", 1, "",
        "Output rate of the UBX-NAV-VELECEF message on port SPI">>,
      <<"CFG-MSGOUT-UBX_NAV_VELNED_I2C", 546373698, "U1", 1, "",
        "Output rate of the UBX-NAV-VELNED message on port I2C">>,
      <<"CFG-MSGOUT-UBX_NAV_VELNED_UART1", 546373699, "U1", 1, "",
        "Output rate of the UBX-NAV-VELNED message on port UART1">>,
      <<"CFG-MSGOUT-UBX_NAV_VELNED_UART2", 546373700, "U1", 1, "",
        "Output rate of the UBX-NAV-VELNED message on port UART2">>,
      <<"CFG-MSGOUT-UBX_NAV_VELNED_USB", 546373701, "U1", 1, "",
        "Output rate of the UBX-NAV-VELNED message on port USB">>,
      <<"CFG-MSGOUT-UBX_NAV_VELNED_SPI", 546373702, "U1", 1, "",
        "Output rate of the UBX-NAV-VELNED message on port SPI">>,
      <<"CFG-MSGOUT-UBX_NAV_TIMEGPS_I2C", 546373703, "U1", 1, "",
        "Output rate of the UBX-NAV-TIMEGPS message on port I2C">>,
      <<"CFG-MSGOUT-UBX_NAV_TIMEGPS_UART1", 546373704, "U1", 1, "",
        "Output rate of the UBX-NAV-TIMEGPS message on port UART1">>,
      <<"CFG-MSGOUT-UBX_NAV_TIMEGPS_UART2", 546373705, "U1", 1, "",
        "Output rate of the UBX-NAV-TIMEGPS message on port UART2">>,
      <<"CFG-MSGOUT-UBX_NAV_TIMEGPS_USB", 546373706, "U1", 1, "",
        "Output rate of the UBX-NAV-TIMEGPS message on port USB">>,
      <<"CFG-MSGOUT-UBX_NAV_TIMEGPS_SPI", 546373707, "U1", 1, "",
        "Output rate of the UBX-NAV-TIMEGPS message on port SPI">>,
      <<"CFG-MSGOUT-UBX_NAV_TIMEGLO_I2C", 546373708, "U1", 1, "",
        "Output rate of the UBX-NAV-TIMEGLO message on port I2C">>,
      <<"CFG-MSGOUT-UBX_NAV_TIMEGLO_UART1", 546373709, "U1", 1, "",
        "Output rate of the UBX-NAV-TIMEGLO message on port UART1">>,
      <<"CFG-MSGOUT-UBX_NAV_TIMEGLO_UART2", 546373710, "U1", 1, "",
        "Output rate of the UBX-NAV-TIMEGLO message on port UART2">>,
      <<"CFG-MSGOUT-UBX_NAV_TIMEGLO_USB", 546373711, "U1", 1, "",
        "Output rate of the UBX-NAV-TIMEGLO message on port USB">>,
      <<"CFG-MSGOUT-UBX_NAV_TIMEGLO_SPI", 546373712, "U1", 1, "",
        "Output rate of the UBX-NAV-TIMEGLO message on port SPI">>,
      <<"CFG-MSGOUT-UBX_NAV_TIMEBDS_I2C", 546373713, "U1", 1, "",
        "Output rate of the UBX-NAV-TIMEBDS message on port I2C">>,
      <<"CFG-MSGOUT-UBX_NAV_TIMEBDS_UART1", 546373714, "U1", 1, "",
        "Output rate of the UBX-NAV-TIMEBDS message on port UART1">>,
      <<"CFG-MSGOUT-UBX_NAV_TIMEBDS_UART2", 546373715, "U1", 1, "",
        "Output rate of the UBX-NAV-TIMEBDS message on port UART2">>,
      <<"CFG-MSGOUT-UBX_NAV_TIMEBDS_USB", 546373716, "U1", 1, "",
        "Output rate of the UBX-NAV-TIMEBDS message on port USB">>,
      <<"CFG-MSGOUT-UBX_NAV_TIMEBDS_SPI", 546373717, "U1", 1, "",
        "Output rate of the UBX-NAV-TIMEBDS message on port SPI">>,
      <<"CFG-MSGOUT-UBX_NAV_TIMEGAL_I2C", 546373718, "U1", 1, "",
        "Output rate of the UBX-NAV-TIMEGAL message on port I2C">>,
      <<"CFG-MSGOUT-UBX_NAV_TIMEGAL_UART1", 546373719, "U1", 1, "",
        "Output rate of the UBX-NAV-TIMEGAL message on port UART1">>,
      <<"CFG-MSGOUT-UBX_NAV_TIMEGAL_UART2", 546373720, "U1", 1, "",
        "Output rate of the UBX-NAV-TIMEGAL message on port UART2">>,
      <<"CFG-MSGOUT-UBX_NAV_TIMEGAL_USB", 546373721, "U1", 1, "",
        "Output rate of the UBX-NAV-TIMEGAL message on port USB">>,
      <<"CFG-MSGOUT-UBX_NAV_TIMEGAL_SPI", 546373722, "U1", 1, "",
        "Output rate of the UBX-NAV-TIMEGAL message on port SPI">>,
      <<"CFG-MSGOUT-UBX_NAV_TIMEUTC_I2C", 546373723, "U1", 1, "",
        "Output rate of the UBX-NAV-TIMEUTC message on port I2C">>,
      <<"CFG-MSGOUT-UBX_NAV_TIMEUTC_UART1", 546373724, "U1", 1, "",
        "Output rate of the UBX-NAV-TIMEUTC message on port UART1">>,
      <<"CFG-MSGOUT-UBX_NAV_TIMEUTC_UART2", 546373725, "U1", 1, "",
        "Output rate of the UBX-NAV-TIMEUTC message on port UART2">>,
      <<"CFG-MSGOUT-UBX_NAV_TIMEUTC_USB", 546373726, "U1", 1, "",
        "Output rate of the UBX-NAV- TIMEUTC message on port USB">>,
      <<"CFG-MSGOUT-UBX_NAV_TIMEUTC_SPI", 546373727, "U1", 1, "",
        "Output rate of the UBX-NAV-TIMEUTC message on port S">>,
      <<"CFG-MSGOUT-UBX_NAV_TIMELS_I2C", 546373728, "U1", 1, "",
        "Output rate of the UBX-NAV-TIMELS message on port I2C">>,
      <<"CFG-MSGOUT-UBX_NAV_TIMELS_UART1", 546373729, "U1", 1, "",
        "Output rate of the UBX-NAV-TIMELS message on port UART1">>,
      <<"CFG-MSGOUT-UBX_NAV_TIMELS_UART2", 546373730, "U1", 1, "",
        "Output rate of the UBX-NAV-TIMELS message on port UART2">>,
      <<"CFG-MSGOUT-UBX_NAV_TIMELS_USB", 546373731, "U1", 1, "",
        "Output rate of the UBX-NAV-TIMELS message on port USB">>,
      <<"CFG-MSGOUT-UBX_NAV_TIMELS_SPI", 546373732, "U1", 1, "",
        "Output rate of the UBX-NAV-TIMELS message on port SPI">>,
      <<"CFG-MSGOUT-UBX_NAV_CLOCK_I2C", 546373733, "U1", 1, "",
        "Output rate of the UBX-NAV-CLOCK message on port I2C">>,
      <<"CFG-MSGOUT-UBX_NAV_CLOCK_UART1", 546373734, "U1", 1, "",
        "Output rate of the UBX-NAV-CLOCK message on port UART1">>,
      <<"CFG-MSGOUT-UBX_NAV_CLOCK_UART2", 546373735, "U1", 1, "",
        "Output rate of the UBX-NAV-CLOCK message on port UART2">>,
      <<"CFG-MSGOUT-UBX_NAV_CLOCK_USB", 546373736, "U1", 1, "",
        "Output rate of the UBX-NAV-CLOCK message on port USB">>,
      <<"CFG-MSGOUT-UBX_NAV_CLOCK_SPI", 546373737, "U1", 1, "",
        "Output rate of the UBX-NAV-CLOCK message on port SPI">>,
      <<"CFG-MSGOUT-UBX_NAV_SBAS_I2C", 546373738, "U1", 1, "",
        "Output rate of the UBX-NAV-SBAS message on port I2C">>,
      <<"CFG-MSGOUT-UBX_NAV_SBAS_UART1", 546373739, "U1", 1, "",
        "Output rate of the UBX-NAV-SBAS message on port UART1">>,
      <<"CFG-MSGOUT-UBX_NAV_SBAS_UART2", 546373740, "U1", 1, "",
        "Output rate of the UBX-NAV-SBAS message on port UART2">>,
      <<"CFG-MSGOUT-UBX_NAV_SBAS_USB", 546373741, "U1", 1, "",
        "Output rate of the UBX-NAV-SBAS message on port USB">>,
      <<"CFG-MSGOUT-UBX_NAV_SBAS_SPI", 546373742, "U1", 1, "",
        "Output rate of the UBX-NAV-SBAS message on port SPI">>,
      <<"CFG-MSGOUT-UBX_NAV_DGPS_I2C", 546373748, "U1", 1, "",
        "Output rate of the UBX-NAV-DGPS message on port I2C">>,
      <<"CFG-MSGOUT-UBX_NAV_DGPS_UART1", 546373749, "U1", 1, "",
        "Output rate of the UBX_NAV-DGPS port UART1">>,
      <<"CFG-MSGOUT-UBX_NAV_DGPS_UART2", 546373750, "U1", 1, "",
        "Output rate of the UBX_NAV-DGPS port UART2">>,
      <<"CFG-MSGOUT-UBX_NAV_DGPS_USB", 546373751, "U1", 1, "",
        "Output rate of the UBX_NAV-DGPS port USB">>,
      <<"CFG-MSGOUT-UBX_NAV_DGPS_SPI", 546373752, "U1", 1, "",
        "Output rate of the UBX_NAV-DGPS port SPI">>,
      <<"CFG-MSGOUT-UBX_NAV_AOPSTATUS_I2C", 546373753, "U1", 1, "",
        "Output rate of the UBX-MON-AOPSTATUS message on port I2C">>,
      <<"CFG-MSGOUT-UBX_NAV_AOPSTATUS_UART1", 546373754, "U1", 1, "",
        "Output rate of the UBX-MON-AOPSTATUS message on port UART1">>,
      <<"CFG-MSGOUT-UBX_NAV_AOPSTATUS_UART2", 546373755, "U1", 1, "",
        "Output rate of the UBX-MON-AOPSTATUS message on port UART2">>,
      <<"CFG-MSGOUT-UBX_NAV_AOPSTATUS_USB", 546373756, "U1", 1, "",
        "Output rate of the UBX-MON-AOPSTATUS message on port USB">>,
      <<"CFG-MSGOUT-UBX_NAV_AOPSTATUS_SPI", 546373757, "U1", 1, "",
        "Output rate of the UBX-MON-AOPSTATUS message on port SPI">>,
      <<"CFG-MSGOUT-UBX_NAV_ODO_I2C", 546373758, "U1", 1, "",
        "Output rate of the UBX-NAV-ODO message on port I2C">>,
      <<"CFG-MSGOUT-UBX_NAV_ODO_UART1", 546373759, "U1", 1, "",
        "Output rate of the UBX-NAV-ODO message on port UART1">>,
      <<"CFG-MSGOUT-UBX_NAV_ODO_UART2", 546373760, "U1", 1, "",
        "Output rate of the UBX-NAV-ODO message on port UART2">>,
      <<"CFG-MSGOUT-UBX_NAV_ODO_USB", 546373761, "U1", 1, "",
        "Output rate of the UBX-NAV-ODO message on port USB">>,
      <<"CFG-MSGOUT-UBX_NAV_ODO_SPI", 546373762, "U1", 1, "",
        "Output rate of the UBX-NAV-ODO message on port SPI">>,
      <<"CFG-MSGOUT-UBX_NAV_COV_I2C", 546373763, "U1", 1, "",
        "Output rate of the UBX-NAV-COV message on port I2C">>,
      <<"CFG-MSGOUT-UBX_NAV_COV_UART1", 546373764, "U1", 1, "",
        "Output rate of the UBX-NAV-COV message on port UART1">>,
      <<"CFG-MSGOUT-UBX_NAV_COV_UART2", 546373765, "U1", 1, "",
        "Output rate of the UBX-NAV-COV message on port UART2">>,
      <<"CFG-MSGOUT-UBX_NAV_COV_USB", 546373766, "U1", 1, "",
        "Output rate of the UBX-NAV-COV message on port USB">>,
      <<"CFG-MSGOUT-UBX_NAV_COV_SPI", 546373767, "U1", 1, "",
        "Output rate of the UBX-NAV-COV message on port SPI">>,
      <<"CFG-MSGOUT-UBX_NAV_SVIN_I2C", 546373768, "U1", 1, "",
        "Output rate of the UBX-NAV-SVIN message on port I2C">>,
      <<"CFG-MSGOUT-UBX_NAV_SVIN_UART1", 546373769, "U1", 1, "",
        "Output rate of the UBX-NAV-SVIN message on port UART1">>,
      <<"CFG-MSGOUT-UBX_NAV_SVIN_UART2", 546373770, "U1", 1, "",
        "Output rate of the UBX-NAV-SVIN message on port UART2">>,
      <<"CFG-MSGOUT-UBX_NAV_SVIN_USB", 546373771, "U1", 1, "",
        "Output rate of the UBX-NAV-SVIN message on port USB">>,
      <<"CFG-MSGOUT-UBX_NAV_SVIN_SPI", 546373772, "U1", 1, "",
        "Output rate of the UBX-NAV-SVIN message on port SPI">>,
      <<"CFG-MSGOUT-UBX_NAV_RELPOSNED_I2C", 546373773, "U1", 1, "",
        "Output rate of the UBX-NAV-RELPOSNED message on port I2C">>,
      <<"CFG-MSGOUT-UBX_NAV_RELPOSNED_UART1", 546373774, "U1", 1, "",
        "Output rate of the UBX-NAV-RELPOSNED message on port UART1">>,
      <<"CFG-MSGOUT-UBX_NAV_RELPOSNED_UART2", 546373775, "U1", 1, "",
        "Output rate of the UBX-NAV-RELPOSNED message on port UART2">>,
      <<"CFG-MSGOUT-UBX_NAV_RELPOSNED_USB", 546373776, "U1", 1, "",
        "Output rate of the UBX-NAV-RELPOSNED message on port USB">>,
      <<"CFG-MSGOUT-UBX_NAV_RELPOSNED_SPI", 546373777, "U1", 1, "",
        "Output rate of the UBX-NAV-RELPOSNED message on port SPI">>,
      <<"CFG-MSGOUT-UBX_NAV_GEOFENCE_I2C", 546373793, "U1", 1, "",
        "Output rate of the UBX-NAV-GEOFENCE message on port I2C">>,
      <<"CFG-MSGOUT-UBX_NAV_GEOFENCE_UART1", 546373794, "U1", 1, "",
        "Output rate of the UBX-NAV-GEOFENCE message on port UART1">>,
      <<"CFG-MSGOUT-UBX_NAV_GEOFENCE_UART2", 546373795, "U1", 1, "",
        "Output rate of the UBX-NAV-GEOFENCE message on port UART2">>,
      <<"CFG-MSGOUT-UBX_NAV_GEOFENCE_USB", 546373796, "U1", 1, "",
        "Output rate of the UBX-NAV- GEOFENCE message on port USB">>,
      <<"CFG-MSGOUT-UBX_NAV_GEOFENCE_SPI", 546373797, "U1", 1, "",
        "Output rate of the UBX-NAV-GEOFENCE message on port SPI">>,
      <<"CFG-MSGOUT-UBX_NAV_EOE_I2C", 546373983, "U1", 1, "",
        "Output rate of the UBX-NAV-EOE message on port I2C">>,
      <<"CFG-MSGOUT-UBX_NAV_EOE_UART1", 546373984, "U1", 1, "",
        "Output rate of the UBX-NAV-EOE message on port UART1">>,
      <<"CFG-MSGOUT-UBX_NAV_EOE_UART2", 546373985, "U1", 1, "",
        "Output rate of the UBX-NAV-EOE message on port UART2">>,
      <<"CFG-MSGOUT-UBX_NAV_EOE_USB", 546373986, "U1", 1, "",
        "Output rate of the UBX-NAV-EOE message on port USB">>,
      <<"CFG-MSGOUT-UBX_NAV_EOE_SPI", 546373987, "U1", 1, "",
        "Output rate of the UBX-NAV-EOE message on port SPI">>,
      <<"CFG-MSGOUT-UBX_NAV_EELL_I2C", 546374419, "U1", 1, "",
        "Output rate of the UBX-NAV-EELL message on port I2C">>,
      <<"CFG-MSGOUT-UBX_NAV_EELL_UART1", 546374420, "U1", 1, "",
        "Output rate of the UBX-NAV-EELL message on port UART1">>,
      <<"CFG-MSGOUT-UBX_NAV_EELL_UART2", 546374421, "U1", 1, "",
        "Output rate of the UBX-NAV-EELL message on port UART2">>,
      <<"CFG-MSGOUT-UBX_NAV_EELL_USB", 546374422, "U1", 1, "",
        "Output rate of the UBX-NAV-EELL message on port USB">>,
      <<"CFG-MSGOUT-UBX_NAV_EELL_SPI", 546374423, "U1", 1, "",
        "Output rate of the UBX-NAV-EELL message on port SPI">>,
      <<"CFG-MSGOUT-UBX_NAV_SLAS_I2C", 546374454, "U1", 1, "",
        "Output rate of the UBX-NAV-SLAS message on port I2C">>,
      <<"CFG-MSGOUT-UBX_NAV_SLAS_UART1", 546374455, "U1", 1, "",
        "Output rate of the UBX-NAV-SLAS message on port UART1">>,
      <<"CFG-MSGOUT-UBX_NAV_SLAS_UART2", 546374456, "U1", 1, "",
        "Output rate of the UBX-NAV-SLAS message on port UART2">>,
      <<"CFG-MSGOUT-UBX_NAV_SLAS_USB", 546374457, "U1", 1, "",
        "Output rate of the UBX-NAV-SLAS message on port USB">>,
      <<"CFG-MSGOUT-UBX_NAV_SLAS_SPI", 546374458, "U1", 1, "",
        "Output rate of the UBX-NAV-SLAS message on port SPI">>,
      <<"CFG-MSGOUT-UBX_NAV_SIG_I2C", 546374469, "U1", 1, "",
        "Output rate of the UBX-NAV-SIG message on port I2C">>,
      <<"CFG-MSGOUT-UBX_NAV_SIG_UART1", 546374470, "U1", 1, "",
        "Output rate of the UBX-NAV-SIG message on port UART1">>,
      <<"CFG-MSGOUT-UBX_NAV_SIG_UART2", 546374471, "U1", 1, "",
        "Output rate of the UBX-NAV-SIG message on port UART2">>,
      <<"CFG-MSGOUT-UBX_NAV_SIG_USB", 546374472, "U1", 1, "",
        "Output rate of the UBX-NAV-SIG message on port USB">>,
      <<"CFG-MSGOUT-UBX_NAV_SIG_SPI", 546374473, "U1", 1, "",
        "Output rate of the UBX-NAV-SIG message on port SPI">>,
      <<"CFG-MSGOUT-UBX_NAV_TIMEQZSS_I2C", 546374534, "U1", 1, "",
        "Output rate of the UBX-NAV-TIMEQZSS message on port I2C">>,
      <<"CFG-MSGOUT-UBX_NAV_TIMEQZSS_UART1", 546374535, "U1", 1, "",
        "Output rate of the UBX-NAV-TIMEQZSS message on port UART1">>,
      <<"CFG-MSGOUT-UBX_NAV_TIMEQZSS_UART2", 546374536, "U1", 1, "",
        "Output rate of the UBX-NAV-TIMEQZSS message on port UART2">>,
      <<"CFG-MSGOUT-UBX_NAV_TIMEQZSS_USB", 546374537, "U1", 1, "",
        "Output rate of the UBX-NAV-TIMEQZSS message on port USB">>,
      <<"CFG-MSGOUT-UBX_NAV_TIMEQZSS_SPI", 546374538, "U1", 1, "",
        "Output rate of the UBX-NAV-TIMEQZSS message on port SPI">>,
      <<"CFG-MSGOUT-UBX_NAV_TIMETRUSTED_I2C", 546374568, "U1", 1, "",
        "Output rate of the UBX-NAV_TIMETRUSTED message on port I2C">>,
      <<"CFG-MSGOUT-UBX_NAV_TIMETRUSTED_UART1", 546374569, "U1", 1, "",
        "Output rate of the UBX-NAV_TIMETRUSTED message on port UART1">>,
      <<"CFG-MSGOUT-UBX_NAV_TIMETRUSTED_UART2", 546374570, "U1", 1, "",
        "Output rate of the UBX-NAV_TIMETRUSTED message on port UART2">>,
      <<"CFG-MSGOUT-UBX_NAV_TIMETRUSTED_USB", 546374571, "U1", 1, "",
        "Output rate of the UBX-NAV_TIMETRUSTED message on port USB">>,
      <<"CFG-MSGOUT-UBX_NAV_TIMETRUSTED_SPI", 546374572, "U1", 1, "",
        "Output rate of the UBX-NAV_TIMETRUSTED message on port SPI">>,
      <<"CFG-MSGOUT-UBX_NAV_PL_I2C", 546374677, "U1", 1, "",
        "Output rate of the UBX-NAV-PL message on port I2C">>,
      <<"CFG-MSGOUT-UBX_NAV_PL_UART1", 546374678, "U1", 1, "",
        "Output rate of the UBX-NAV-PL message on port UART1">>,
      <<"CFG-MSGOUT-UBX_NAV_PL_UART2", 546374679, "U1", 1, "",
        "Output rate of the UBX-NAV-PL message on port UART2">>,
      <<"CFG-MSGOUT-UBX_NAV_PL_USB", 546374680, "U1", 1, "",
        "Output rate of the UBX-NAV-PL message on port USB">>,
      <<"CFG-MSGOUT-UBX_NAV_PL_SPI", 546374681, "U1", 1, "",
        "Output rate of the UBX-NAV-PL message on port SPI">>,
      <<"CFG-MSGOUT-UBX_NAV_NMI_I2C", 546375056, "U1", 1, "",
        "Output rate of the UBX-NAV-NMI message on port I2C">>,
      <<"CFG-MSGOUT-UBX_NAV_NMI_UART1", 546375057, "U1", 1, "",
        "Output rate of the UBX-NAV-NMI message on port UART1">>,
      <<"CFG-MSGOUT-UBX_NAV_NMI_UART2", 546375058, "U1", 1, "",
        "Output rate of the UBX-NAV-NMI message on port UART2">>,
      <<"CFG-MSGOUT-UBX_NAV_NMI_USB", 546375059, "U1", 1, "",
        "Output rate of the UBX-NAV-NMI message on port USB">>,
      <<"CFG-MSGOUT-UBX_NAV_NMI_SPI", 546375060, "U1", 1, "",
        "Output rate of the UBX-NAV-NMI message on port SPI">>,
      <<"CFG-MSGOUT-UBX_NAV_PVAT_I2C", 546375210, "U1", 1, "",
        "Output rate of the UBX-NAV-PVAT message on port I2C">>,
      <<"CFG-MSGOUT-UBX_NAV_PVAT_UART1", 546375211, "U1", 1, "",
        "Output rate of the UBX-NAV-PVAT message on port UART1">>,
      <<"CFG-MSGOUT-UBX_NAV_PVAT_UART2", 546375212, "U1", 1, "",
        "Output rate of the UBX-NAV-PVAT message on port UART2">>,
      <<"CFG-MSGOUT-UBX_NAV_PVAT_USB", 546375213, "U1", 1, "",
        "Output rate of the UBX-NAV-PVAT message on port USB">>,
      <<"CFG-MSGOUT-UBX_NAV_PVAT_SPI", 546375214, "U1", 1, "",
        "Output rate of the UBX-NAV-PVAT message on port SPI">>,
      <<"CFG-MSGOUT-UBX_NAV_TIMENAVIC_I2C", 546375330, "U1", 1, "",
        "Output rate of the UBX-NAV-TIMENAVIC message on port I2C">>,
      <<"CFG-MSGOUT-UBX_NAV_TIMENAVIC_UART1", 546375331, "U1", 1, "",
        "Output rate of the UBX_NAV-TIMENAVIC port UART1">>,
      <<"CFG-MSGOUT-UBX_NAV_TIMENAVIC_UART2", 546375332, "U1", 1, "",
        "Output rate of the UBX_NAV-TIMENAVIC port UART2">>,
      <<"CFG-MSGOUT-UBX_NAV_TIMENAVIC_USB", 546375333, "U1", 1, "",
        "Output rate of the UBX_NAV-TIMENAVIC port USB">>,
      <<"CFG-MSGOUT-UBX_NAV_TIMENAVIC_SPI", 546375334, "U1", 1, "",
        "Output rate of the UBX_NAV-TIMENAVIC port SPI">>,
      <<"CFG-MSGOUT-UBX_NAV_CFB_I2C", 546375380, "U1", 1, "",
        "Output rate of the UBX-NAV-CFB message on port I2C">>,
      <<"CFG-MSGOUT-UBX_NAV_CFB_UART1", 546375381, "U1", 1, "",
        "Output rate of the UBX_NAV-CFB port UART1">>,
      <<"CFG-MSGOUT-UBX_NAV_CFB_UART2", 546375382, "U1", 1, "",
        "Output rate of the UBX_NAV-CFB port UART2">>,
      <<"CFG-MSGOUT-UBX_NAV_CFB_USB", 546375383, "U1", 1, "",
        "Output rate of the UBX_NAV-CFB port USB">>,
      <<"CFG-MSGOUT-UBX_NAV_CFB_SPI", 546375384, "U1", 1, "",
        "Output rate of the UBX_NAV-CFB port SPI">>,
      <<"CFG-MSGOUT-UBX_NAV2_CLOCK_I2C", 546374704, "U1", 1, "",
        "Output rate of the UBX-NAV2-CLOCK message on port I2C">>,
      <<"CFG-MSGOUT-UBX_NAV2_CLOCK_UART1", 546374705, "U1", 1, "",
        "Output rate of the UBX-NAV2-CLOCK message on port UART1">>,
      <<"CFG-MSGOUT-UBX_NAV2_CLOCK_UART2", 546374706, "U1", 1, "",
        "Output rate of the UBX-NAV2-CLOCK message on port UART2">>,
      <<"CFG-MSGOUT-UBX_NAV2_CLOCK_USB", 546374707, "U1", 1, "",
        "Output rate of the UBX-NAV2-CLOCK message on port USB">>,
      <<"CFG-MSGOUT-UBX_NAV2_CLOCK_SPI", 546374708, "U1", 1, "",
        "Output rate of the UBX-NAV2-CLOCK message on port SPI">>,
      <<"CFG-MSGOUT-UBX_NAV2_COV_I2C", 546374709, "U1", 1, "",
        "Output rate of the UBX-NAV2-COV message on port I2C">>,
      <<"CFG-MSGOUT-UBX_NAV2_COV_UART1", 546374710, "U1", 1, "",
        "Output rate of the UBX-NAV2-COV message on port UART1">>,
      <<"CFG-MSGOUT-UBX_NAV2_COV_UART2", 546374711, "U1", 1, "",
        "Output rate of the UBX-NAV2-COV message on port UART2">>,
      <<"CFG-MSGOUT-UBX_NAV2_COV_USB", 546374712, "U1", 1, "",
        "Output rate of the UBX-NAV2-COV message on port USB">>,
      <<"CFG-MSGOUT-UBX_NAV2_COV_SPI", 546374713, "U1", 1, "",
        "Output rate of the UBX-NAV2-COV message on port SPI">>,
      <<"CFG-MSGOUT-UBX_NAV2_DOP_I2C", 546374757, "U1", 1, "",
        "Output rate of the UBX-NAV2-DOP message on port I2C">>,
      <<"CFG-MSGOUT-UBX_NAV2_DOP_UART1", 546374758, "U1", 1, "",
        "Output rate of the UBX-NAV2-DOP message on port UART1">>,
      <<"CFG-MSGOUT-UBX_NAV2_DOP_UART2", 546374759, "U1", 1, "",
        "Output rate of the UBX-NAV2-DOP message on port UART2">>,
      <<"CFG-MSGOUT-UBX_NAV2_DOP_USB", 546374760, "U1", 1, "",
        "Output rate of the UBX-NAV2-DOP message on port USB">>,
      <<"CFG-MSGOUT-UBX_NAV2_DOP_SPI", 546374761, "U1", 1, "",
        "Output rate of the UBX-NAV2-DOP message on port SPI">>,
      <<"CFG-MSGOUT-UBX_NAV2_EELL_I2C", 546374768, "U1", 1, "",
        "Output rate of the UBX-NAV2-EELL message on port I2C">>,
      <<"CFG-MSGOUT-UBX_NAV2_EELL_UART1", 546374769, "U1", 1, "",
        "Output rate of the UBX-NAV2-EELL message on port UART1">>,
      <<"CFG-MSGOUT-UBX_NAV2_EELL_UART2", 546374770, "U1", 1, "",
        "Output rate of the UBX-NAV2-EELL message on port UART2">>,
      <<"CFG-MSGOUT-UBX_NAV2_EELL_USB", 546374771, "U1", 1, "",
        "Output rate of the UBX-NAV2-EELL message on port USB">>,
      <<"CFG-MSGOUT-UBX_NAV2_EELL_SPI", 546374772, "U1", 1, "",
        "Output rate of the UBX-NAV2-EELL message on port SPI">>,
      <<"CFG-MSGOUT-UBX_NAV2_ODO_I2C", 546374773, "U1", 1, "",
        "Output rate of the UBX-NAV2-ODO message on port I2C">>,
      <<"CFG-MSGOUT-UBX_NAV2_ODO_UART1", 546374774, "U1", 1, "",
        "Output rate of the UBX-NAV2-ODO message on port UART1">>,
      <<"CFG-MSGOUT-UBX_NAV2_ODO_UART2", 546374775, "U1", 1, "",
        "Output rate of the UBX-NAV2-ODO message on port UART2">>,
      <<"CFG-MSGOUT-UBX_NAV2_ODO_USB", 546374776, "U1", 1, "",
        "Output rate of the UBX-NAV2-ODO message on port USB">>,
      <<"CFG-MSGOUT-UBX_NAV2_ODO_SPI", 546374777, "U1", 1, "",
        "Output rate of the UBX-NAV2-ODO message on port SPI">>,
      <<"CFG-MSGOUT-UBX_NAV2_POSECEF_I2C", 546374784, "U1", 1, "",
        "Output rate of the UBX-NAV2-POSECEF message on port I2C">>,
      <<"CFG-MSGOUT-UBX_NAV2_POSECEF_UART1", 546374785, "U1", 1, "",
        "Output rate of the UBX-NAV2-POSECEF message on port UART1">>,
      <<"CFG-MSGOUT-UBX_NAV2_POSECEF_UART2", 546374786, "U1", 1, "",
        "Output rate of the UBX-NAV2-POSECEF message on port UART2">>,
      <<"CFG-MSGOUT-UBX_NAV2_POSECEF_USB", 546374787, "U1", 1, "",
        "Output rate of the UBX-NAV2-POSECEF message on port USB">>,
      <<"CFG-MSGOUT-UBX_NAV2_POSECEF_SPI", 546374788, "U1", 1, "",
        "Output rate of the UBX-NAV2-POSECEF message on port SPI">>,
      <<"CFG-MSGOUT-UBX_NAV2_POSLLH_I2C", 546374789, "U1", 1, "",
        "Output rate of the UBX-NAV2-POSLLH message on port I2C">>,
      <<"CFG-MSGOUT-UBX_NAV2_POSLLH_UART1", 546374790, "U1", 1, "",
        "Output rate of the UBX-NAV2-POSLLH message on port UART1">>,
      <<"CFG-MSGOUT-UBX_NAV2_POSLLH_UART2", 546374791, "U1", 1, "",
        "Output rate of the UBX-NAV2-POSLLH message on port UART2">>,
      <<"CFG-MSGOUT-UBX_NAV2_POSLLH_USB", 546374792, "U1", 1, "",
        "Output rate of the UBX-NAV2-POSLLH message on port USB">>,
      <<"CFG-MSGOUT-UBX_NAV2_POSLLH_SPI", 546374793, "U1", 1, "",
        "Output rate of the UBX-NAV2-POSLLH message on port SPI">>,
      <<"CFG-MSGOUT-UBX_NAV2_PVT_I2C", 546374800, "U1", 1, "",
        "Output rate of the UBX-NAV2-PVT message on port I2C">>,
      <<"CFG-MSGOUT-UBX_NAV2_PVT_UART1", 546374801, "U1", 1, "",
        "Output rate of the UBX-NAV2-PVT message on port UART1">>,
      <<"CFG-MSGOUT-UBX_NAV2_PVT_UART2", 546374802, "U1", 1, "",
        "Output rate of the UBX-NAV2-PVT message on port UART2">>,
      <<"CFG-MSGOUT-UBX_NAV2_PVT_USB", 546374803, "U1", 1, "",
        "Output rate of the UBX-NAV2-PVT message on port USB">>,
      <<"CFG-MSGOUT-UBX_NAV2_PVT_SPI", 546374804, "U1", 1, "",
        "Output rate of the UBX-NAV2-PVT message on port SPI">>,
      <<"CFG-MSGOUT-UBX_NAV2_SAT_I2C", 546374805, "U1", 1, "",
        "Output rate of the UBX-NAV2-SAT message on port I2C">>,
      <<"CFG-MSGOUT-UBX_NAV2_SAT_UART1", 546374806, "U1", 1, "",
        "Output rate of the UBX-NAV2-SAT message on port UART1">>,
      <<"CFG-MSGOUT-UBX_NAV2_SAT_UART2", 546374807, "U1", 1, "",
        "Output rate of the UBX-NAV2-SAT message on port UART2">>,
      <<"CFG-MSGOUT-UBX_NAV2_SAT_USB", 546374808, "U1", 1, "",
        "Output rate of the UBX-NAV2-SAT message on port USB">>,
      <<"CFG-MSGOUT-UBX_NAV2_SAT_SPI", 546374809, "U1", 1, "",
        "Output rate of the UBX-NAV2-SAT message on port SPI">>,
      <<"CFG-MSGOUT-UBX_NAV2_SBAS_I2C", 546374912, "U1", 1, "",
        "Output rate of the UBX-NAV2-SBAS message on port I2C">>,
      <<"CFG-MSGOUT-UBX_NAV2_SBAS_UART1", 546374913, "U1", 1, "",
        "Output rate of the UBX-NAV2-SBAS message on port UART1">>,
      <<"CFG-MSGOUT-UBX_NAV2_SBAS_UART2", 546374914, "U1", 1, "",
        "Output rate of the UBX-NAV2-SBAS message on port UART2">>,
      <<"CFG-MSGOUT-UBX_NAV2_SBAS_USB", 546374915, "U1", 1, "",
        "Output rate of the UBX-NAV2-SBAS message on port USB">>,
      <<"CFG-MSGOUT-UBX_NAV2_SBAS_SPI", 546374916, "U1", 1, "",
        "Output rate of the UBX-NAV2-SBAS message on port SPI">>,
      <<"CFG-MSGOUT-UBX_NAV2_SIG_I2C", 546374917, "U1", 1, "",
        "Output rate of the UBX-NAV2-SIG message on port I2C">>,
      <<"CFG-MSGOUT-UBX_NAV2_SIG_UART1", 546374918, "U1", 1, "",
        "Output rate of the UBX-NAV2-SIG message on port UART1">>,
      <<"CFG-MSGOUT-UBX_NAV2_SIG_UART2", 546374919, "U1", 1, "",
        "Output rate of the UBX-NAV2-SIG message on port UART2">>,
      <<"CFG-MSGOUT-UBX_NAV2_SIG_USB", 546374920, "U1", 1, "",
        "Output rate of the UBX-NAV2-SIG message on port USB">>,
      <<"CFG-MSGOUT-UBX_NAV2_SIG_SPI", 546374921, "U1", 1, "",
        "Output rate of the UBX-NAV2-SIG message on port SPI">>,
      <<"CFG-MSGOUT-UBX_NAV2_SLAS_I2C", 546374928, "U1", 1, "",
        "Output rate of the UBX-NAV2-SLAS message on port I2C">>,
      <<"CFG-MSGOUT-UBX_NAV2_SLAS_UART1", 546374929, "U1", 1, "",
        "Output rate of the UBX-NAV2-SLAS message on port UART1">>,
      <<"CFG-MSGOUT-UBX_NAV2_SLAS_UART2", 546374930, "U1", 1, "",
        "Output rate of the UBX-NAV2-SLAS message on port UART2">>,
      <<"CFG-MSGOUT-UBX_NAV2_SLAS_USB", 546374931, "U1", 1, "",
        "Output rate of the UBX-NAV2-SLAS message on port USB">>,
      <<"CFG-MSGOUT-UBX_NAV2_SLAS_SPI", 546374932, "U1", 1, "",
        "Output rate of the UBX-NAV2-SLAS message on port SPI">>,
      <<"CFG-MSGOUT-UBX_NAV2_STATUS_I2C", 546374933, "U1", 1, "",
        "Output rate of the UBX-NAV2-STATUS message on port I2C">>,
      <<"CFG-MSGOUT-UBX_NAV2_STATUS_UART1", 546374934, "U1", 1, "",
        "Output rate of the UBX-NAV2-STATUS message on port UART1">>,
      <<"CFG-MSGOUT-UBX_NAV2_STATUS_UART2", 546374935, "U1", 1, "",
        "Output rate of the UBX-NAV2-STATUS message on port UART2">>,
      <<"CFG-MSGOUT-UBX_NAV2_STATUS_USB", 546374936, "U1", 1, "",
        "Output rate of the UBX-NAV2-STATUS message on port USB">>,
      <<"CFG-MSGOUT-UBX_NAV2_STATUS_SPI", 546374937, "U1", 1, "",
        "Output rate of the UBX-NAV2-STATUS message on port SPI">>,
      <<"CFG-MSGOUT-UBX_NAV2_SVIN_I2C", 546374944, "U1", 1, "",
        "Output rate of the UBX-NAV2-SVIN message on port I2C">>,
      <<"CFG-MSGOUT-UBX_NAV2_SVIN_UART1", 546374945, "U1", 1, "",
        "Output rate of the UBX-NAV2-SVIN message on port UART1">>,
      <<"CFG-MSGOUT-UBX_NAV2_SVIN_UART2", 546374946, "U1", 1, "",
        "Output rate of the UBX-NAV2-SVIN message on port UART2">>,
      <<"CFG-MSGOUT-UBX_NAV2_SVIN_USB", 546374947, "U1", 1, "",
        "Output rate of the UBX-NAV2-SVIN message on port USB">>,
      <<"CFG-MSGOUT-UBX_NAV2_SVIN_SPI", 546374948, "U1", 1, "",
        "Output rate of the UBX-NAV2-SVIN message on port SPI">>,
      <<"CFG-MSGOUT-UBX_NAV2_TIMEBDS_I2C", 546374949, "U1", 1, "",
        "Output rate of the UBX-NAV2-TIMEBDS message on port I2C">>,
      <<"CFG-MSGOUT-UBX_NAV2_TIMEBDS_UART1", 546374950, "U1", 1, "",
        "Output rate of the UBX-NAV2-TIMEBDS message on port UART1">>,
      <<"CFG-MSGOUT-UBX_NAV2_TIMEBDS_UART2", 546374951, "U1", 1, "",
        "Output rate of the UBX-NAV2-TIMEBDS message on port UART2">>,
      <<"CFG-MSGOUT-UBX_NAV2_TIMEBDS_USB", 546374952, "U1", 1, "",
        "Output rate of the UBX-NAV2-TIMEBDS message on port USB">>,
      <<"CFG-MSGOUT-UBX_NAV2_TIMEBDS_SPI", 546374953, "U1", 1, "",
        "Output rate of the UBX-NAV2-TIMEBDS message on port SPI">>,
      <<"CFG-MSGOUT-UBX_NAV2_TIMEGAL_I2C", 546374960, "U1", 1, "",
        "Output rate of the UBX-NAV2-TIMEGAL message on port I2C">>,
      <<"CFG-MSGOUT-UBX_NAV2_TIMEGAL_UART1", 546374961, "U1", 1, "",
        "Output rate of the UBX-NAV2-TIMEGAL message on port UART1">>,
      <<"CFG-MSGOUT-UBX_NAV2_TIMEGAL_UART2", 546374962, "U1", 1, "",
        "Output rate of the UBX-NAV2-TIMEGAL message on port UART2">>,
      <<"CFG-MSGOUT-UBX_NAV2_TIMEGAL_USB", 546374963, "U1", 1, "",
        "Output rate of the UBX-NAV2-TIMEGAL message on port USB">>,
      <<"CFG-MSGOUT-UBX_NAV2_TIMEGAL_SPI", 546374964, "U1", 1, "",
        "Output rate of the UBX-NAV2-TIMEGAL message on port SPI">>,
      <<"CFG-MSGOUT-UBX_NAV2_TIMEGLO_I2C", 546374965, "U1", 1, "",
        "Output rate of the UBX-NAV2-TIMEGLO message on port I2C">>,
      <<"CFG-MSGOUT-UBX_NAV2_TIMEGLO_UART1", 546374966, "U1", 1, "",
        "Output rate of the UBX-NAV2-TIMEGLO message on port UART1">>,
      <<"CFG-MSGOUT-UBX_NAV2_TIMEGLO_UART2", 546374967, "U1", 1, "",
        "Output rate of the UBX-NAV2-TIMEGLO message on port UART2">>,
      <<"CFG-MSGOUT-UBX_NAV2_TIMEGLO_USB", 546374968, "U1", 1, "",
        "Output rate of the UBX-NAV2-TIMEGLO message on port USB">>,
      <<"CFG-MSGOUT-UBX_NAV2_TIMEGLO_SPI", 546374969, "U1", 1, "",
        "Output rate of the UBX-NAV2-TIMEGLO message on port SPI">>,
      <<"CFG-MSGOUT-UBX_NAV2_TIMEGPS_I2C", 546374976, "U1", 1, "",
        "Output rate of the UBX-NAV2-TIMEGPS message on port I2C">>,
      <<"CFG-MSGOUT-UBX_NAV2_TIMEGPS_UART1", 546374977, "U1", 1, "",
        "Output rate of the UBX-NAV2-TIMEGPS message on port UART1">>,
      <<"CFG-MSGOUT-UBX_NAV2_TIMEGPS_UART2", 546374978, "U1", 1, "",
        "Output rate of the UBX-NAV2-TIMEGPS message on port UART2">>,
      <<"CFG-MSGOUT-UBX_NAV2_TIMEGPS_USB", 546374979, "U1", 1, "",
        "Output rate of the UBX-NAV2-TIMEGPS message on port USB">>,
      <<"CFG-MSGOUT-UBX_NAV2_TIMEGPS_SPI", 546374980, "U1", 1, "",
        "Output rate of the UBX-NAV2-TIMEGPS message on port SPI">>,
      <<"CFG-MSGOUT-UBX_NAV2_TIMELS_I2C", 546374981, "U1", 1, "",
        "Output rate of the UBX-NAV2-TIMELS message on port I2C">>,
      <<"CFG-MSGOUT-UBX_NAV2_TIMELS_UART1", 546374982, "U1", 1, "",
        "Output rate of the UBX-NAV2-TIMELS message on port UART1">>,
      <<"CFG-MSGOUT-UBX_NAV2_TIMELS_UART2", 546374983, "U1", 1, "",
        "Output rate of the UBX-NAV2-TIMELS message on port UART2">>,
      <<"CFG-MSGOUT-UBX_NAV2_TIMELS_USB", 546374984, "U1", 1, "",
        "Output rate of the UBX-NAV2-TIMELS message on port USB">>,
      <<"CFG-MSGOUT-UBX_NAV2_TIMELS_SPI", 546374985, "U1", 1, "",
        "Output rate of the UBX-NAV2-TIMELS message on port SPI">>,
      <<"CFG-MSGOUT-UBX_NAV2_TIMEUTC_I2C", 546374992, "U1", 1, "",
        "Output rate of the UBX-NAV2-TIMEUTC message on port I2C">>,
      <<"CFG-MSGOUT-UBX_NAV2_TIMEUTC_UART1", 546374993, "U1", 1, "",
        "Output rate of the UBX-NAV2-TIMEUTC message on port UART1">>,
      <<"CFG-MSGOUT-UBX_NAV2_TIMEUTC_UART2", 546374994, "U1", 1, "",
        "Output rate of the UBX-NAV2-TIMEUTC message on port UART2">>,
      <<"CFG-MSGOUT-UBX_NAV2_TIMEUTC_USB", 546374995, "U1", 1, "",
        "Output rate of the UBX-NAV2-TIMEUTC message on port USB">>,
      <<"CFG-MSGOUT-UBX_NAV2_TIMEUTC_SPI", 546374996, "U1", 1, "",
        "Output rate of the UBX-NAV2-TIMEUTC message on port SPI">>,
      <<"CFG-MSGOUT-UBX_NAV2_VELECEF_I2C", 546374997, "U1", 1, "",
        "Output rate of the UBX-NAV2-VELECEF message on port I2C">>,
      <<"CFG-MSGOUT-UBX_NAV2_VELECEF_UART1", 546374998, "U1", 1, "",
        "Output rate of the UBX-NAV2-VELECEF message on port UART1">>,
      <<"CFG-MSGOUT-UBX_NAV2_VELECEF_UART2", 546374999, "U1", 1, "",
        "Output rate of the UBX-NAV2-VELECEF message on port UART2">>,
      <<"CFG-MSGOUT-UBX_NAV2_VELECEF_USB", 546375000, "U1", 1, "",
        "Output rate of the UBX-NAV2-VELECEF message on port USB">>,
      <<"CFG-MSGOUT-UBX_NAV2_VELECEF_SPI", 546375001, "U1", 1, "",
        "Output rate of the UBX-NAV2-VELECEF message on port SPI">>,
      <<"CFG-MSGOUT-UBX_NAV2_VELNED_I2C", 546375008, "U1", 1, "",
        "Output rate of the UBX-NAV2-VELNED message on port I2C">>,
      <<"CFG-MSGOUT-UBX_NAV2_VELNED_UART1", 546375009, "U1", 1, "",
        "Output rate of the UBX-NAV2-VELNED message on port UART1">>,
      <<"CFG-MSGOUT-UBX_NAV2_VELNED_UART2", 546375010, "U1", 1, "",
        "Output rate of the UBX-NAV2-VELNED message on port UART2">>,
      <<"CFG-MSGOUT-UBX_NAV2_VELNED_USB", 546375011, "U1", 1, "",
        "Output rate of the UBX-NAV2-VELNED message on port USB">>,
      <<"CFG-MSGOUT-UBX_NAV2_VELNED_SPI", 546375012, "U1", 1, "",
        "Output rate of the UBX-NAV2-VELNED message on port SPI">>,
      <<"CFG-MSGOUT-UBX_NAV2_EOE_I2C", 546375013, "U1", 1, "",
        "Output rate of the UBX-NAV2-EOE message on port I2C">>,
      <<"CFG-MSGOUT-UBX_NAV2_EOE_UART1", 546375014, "U1", 1, "",
        "Output rate of the UBX-NAV2-EOE message on port UART1">>,
      <<"CFG-MSGOUT-UBX_NAV2_EOE_UART2", 546375015, "U1", 1, "",
        "Output rate of the UBX-NAV2-EOE message on port UART2">>,
      <<"CFG-MSGOUT-UBX_NAV2_EOE_USB", 546375016, "U1", 1, "",
        "Output rate of the UBX-NAV2-EOE message on port USB">>,
      <<"CFG-MSGOUT-UBX_NAV2_EOE_SPI", 546375017, "U1", 1, "",
        "Output rate of the UBX-NAV2-EOE message on port SPI">>,
      <<"CFG-MSGOUT-UBX_NAV2_TIMEQZSS_I2C", 546375029, "U1", 1, "",
        "Output rate of the UBX-NAV2-TIMEQZSS message on port I2C">>,
      <<"CFG-MSGOUT-UBX_NAV2_TIMEQZSS_UART1", 546375030, "U1", 1, "",
        "Output rate of the UBX-NAV2-TIMEQZSS message on port UART1">>,
      <<"CFG-MSGOUT-UBX_NAV2_TIMEQZSS_UART2", 546375031, "U1", 1, "",
        "Output rate of the UBX-NAV2-TIMEQZSS message on port UART2">>,
      <<"CFG-MSGOUT-UBX_NAV2_TIMEQZSS_USB", 546375032, "U1", 1, "",
        "Output rate of the UBX-NAV2-TIMEQZSS message on port USB">>,
      <<"CFG-MSGOUT-UBX_NAV2_TIMEQZSS_SPI", 546375033, "U1", 1, "",
        "Output rate of the UBX-NAV2-TIMEQZSS message on port SPI">>,
      <<"CFG-MSGOUT-UBX_NAV2_PVAT_I2C", 546375215, "U1", 1, "",
        "Output rate of the UBX-NA2-PVAT message on port I2C">>,
      <<"CFG-MSGOUT-UBX_NAV2_PVAT_UART1", 546375216, "U1", 1, "",
        "Output rate of the UBX-NAV2-PVAT message on port UART1">>,
      <<"CFG-MSGOUT-UBX_NAV2_PVAT_UART2", 546375217, "U1", 1, "",
        "Output rate of the UBX-NAV2-PVAT message on port UART2">>,
      <<"CFG-MSGOUT-UBX_NAV2_PVAT_USB", 546375218, "U1", 1, "",
        "Output rate of the UBX-NAV2-PVAT message on port USB">>,
      <<"CFG-MSGOUT-UBX_NAV2_PVAT_SPI", 546375219, "U1", 1, "",
        "Output rate of the UBX-NAV2-PVAT message on port SPI">>,
      <<"CFG-MSGOUT-UBX_NAV2_TIMENAVIC_I2C", 546375335, "U1", 1, "",
        "Output rate of the UBX-NAV2-TIMENAVIC message on port I2C">>,
      <<"CFG-MSGOUT-UBX_NAV2_TIMENAVIC_UART1", 546375336, "U1", 1, "",
        "Output rate of the UBX-NAV2-TIMENAVIC message on port UART1">>,
      <<"CFG-MSGOUT-UBX_NAV2_TIMENAVIC_UART2", 546375337, "U1", 1, "",
        "Output rate of the UBX-NAV2-TIMENAVIC message on port UART2">>,
      <<"CFG-MSGOUT-UBX_NAV2_TIMENAVIC_USB", 546375338, "U1", 1, "",
        "Output rate of the UBX-NAV2-TIMENAVIC message on port USB">>,
      <<"CFG-MSGOUT-UBX_NAV2_TIMENAVIC_SPI", 546375339, "U1", 1, "",
        "Output rate of the UBX-NAV2-TIMENAVIC message on port SPI">>,
      <<"CFG-MSGOUT-UBX_RXM_SVSI_I2C", 546373968, "U1", 1, "",
        "Output rate of the UBX-RXM-SVSI message on port I2C">>,
      <<"CFG-MSGOUT-UBX_RXM_SVSI_UART1", 546373969, "U1", 1, "",
        "Output rate of the UBX-RXM-SVSI message on port UART1">>,
      <<"CFG-MSGOUT-UBX_RXM_SVSI_UART2", 546373970, "U1", 1, "",
        "Output rate of the UBX-RXM-SVSI message on port UART2">>,
      <<"CFG-MSGOUT-UBX_RXM_SVSI_USB", 546373971, "U1", 1, "",
        "Output rate of the UBX-RXM-SVSI message on port USB">>,
      <<"CFG-MSGOUT-UBX_RXM_SVSI_SPI", 546373972, "U1", 1, "",
        "Output rate of the UBX-RXM-SVSI message on port SPI">>,
      <<"CFG-MSGOUT-UBX_RXM_IMES_I2C", 546373978, "U1", 1, "",
        "Output rate of the UBX-RXM-IMES message on port I2C">>,
      <<"CFG-MSGOUT-UBX_RXM_IMES_UART1", 546373979, "U1", 1, "",
        "Output rate of the UBX-RXM-IMES message on port UART1">>,
      <<"CFG-MSGOUT-UBX_RXM_IMES_UART2", 546373980, "U1", 1, "",
        "Output rate of the UBX-RXM-IMES message on port UART2">>,
      <<"CFG-MSGOUT-UBX_RXM_IMES_USB", 546373981, "U1", 1, "",
        "Output rate of the UBX-RXM-IMES message on port USB">>,
      <<"CFG-MSGOUT-UBX_RXM_IMES_SPI", 546373982, "U1", 1, "",
        "Output rate of the UBX-RXM-IMES message on port SPI">>,
      <<"CFG-MSGOUT-UBX_RXM_EPH_I2C", 546373993, "U1", 1, "",
        "Output rate of the UBX-RXM-EPH message on port I2C">>,
      <<"CFG-MSGOUT-UBX_RXM_EPH_UART1", 546373994, "U1", 1, "",
        "Output rate of the UBX-RXM-EPH message on port UART1">>,
      <<"CFG-MSGOUT-UBX_RXM_EPH_UART2", 546373995, "U1", 1, "",
        "Output rate of the UBX-RXM-EPH message on port UART2">>,
      <<"CFG-MSGOUT-UBX_RXM_EPH_USB", 546373996, "U1", 1, "",
        "Output rate of the UBX-RXM-EPH message on port USB">>,
      <<"CFG-MSGOUT-UBX_RXM_EPH_SPI", 546373997, "U1", 1, "",
        "Output rate of the UBX-RXM-EPH message on port SPI">>,
      <<"CFG-MSGOUT-UBX_RXM_ALM_I2C", 546374003, "U1", 1, "",
        "Output rate of the UBX-RXM-ALM message on port I2C">>,
      <<"CFG-MSGOUT-UBX_RXM_ALM_UART1", 546374004, "U1", 1, "",
        "Output rate of the UBX-RXM-ALM message on port UART1">>,
      <<"CFG-MSGOUT-UBX_RXM_ALM_UART2", 546374005, "U1", 1, "",
        "Output rate of the UBX-RXM-ALM message on port UART2">>,
      <<"CFG-MSGOUT-UBX_RXM_ALM_USB", 546374006, "U1", 1, "",
        "Output rate of the UBX-RXM-ALM message on port USB">>,
      <<"CFG-MSGOUT-UBX_RXM_ALM_SPI", 546374007, "U1", 1, "",
        "Output rate of the UBX-RXM-ALM message on port SPI">>,
      <<"CFG-MSGOUT-UBX_RXM_MEASX_I2C", 546374148, "U1", 1, "",
        "Output rate of the UBX-RXM-MEASX message on port I2C">>,
      <<"CFG-MSGOUT-UBX_RXM_MEASX_UART1", 546374149, "U1", 1, "",
        "Output rate of the UBX-RXM-MEASX message on port UART1">>,
      <<"CFG-MSGOUT-UBX_RXM_MEASX_UART2", 546374150, "U1", 1, "",
        "Output rate of the UBX-RXM-MEASX message on port UART2">>,
      <<"CFG-MSGOUT-UBX_RXM_MEASX_USB", 546374151, "U1", 1, "",
        "Output rate of the UBX-RXM-MEASX message on port USB">>,
      <<"CFG-MSGOUT-UBX_RXM_MEASX_SPI", 546374152, "U1", 1, "",
        "Output rate of the UBX-RXM-MEASX message on port SPI">>,
      <<"CFG-MSGOUT-UBX_RXM_SFRBX_I2C", 546374193, "U1", 1, "",
        "Output rate of the UBX-RXM-SFRBX message on port I2C">>,
      <<"CFG-MSGOUT-UBX_RXM_SFRBX_UART1", 546374194, "U1", 1, "",
        "Output rate of the UBX-RXM-SFRBX message on port UART1">>,
      <<"CFG-MSGOUT-UBX_RXM_SFRBX_UART2", 546374195, "U1", 1, "",
        "Output rate of the UBX-RXM-SFRBX message on port UART2">>,
      <<"CFG-MSGOUT-UBX_RXM_SFRBX_USB", 546374196, "U1", 1, "",
        "Output rate of the UBX-RXM-SFRBX message on port USB">>,
      <<"CFG-MSGOUT-UBX_RXM_SFRBX_SPI", 546374197, "U1", 1, "",
        "Output rate of the UBX-RXM-SFRBX message on port SPI">>,
      <<"CFG-MSGOUT-UBX_RXM_PMP_I2C", 546374429, "U1", 1, "",
        "Output rate of the UBX_RXM_PMP message on port I2C">>,
      <<"CFG-MSGOUT-UBX_RXM_PMP_UART1", 546374430, "U1", 1, "",
        "Output rate of the UBX_RXM_PMP message on port UART1">>,
      <<"CFG-MSGOUT-UBX_RXM_PMP_UART2", 546374431, "U1", 1, "",
        "Output rate of the UBX_RXM_PMP message on port UART2">>,
      <<"CFG-MSGOUT-UBX_RXM_PMP_USB", 546374432, "U1", 1, "",
        "Output rate of the UBX_RXM_PMP message on port USB">>,
      <<"CFG-MSGOUT-UBX_RXM_PMP_SPI", 546374433, "U1", 1, "",
        "Output rate of the UBX_RXM_PMP message on port SPI">>,
      <<"CFG-MSGOUT-UBX_RXM_QZSSL6_UART1", 546374459, "U1", 1, "",
        "output rate of the UBX-RXM-QZSSL6 message on port UART1">>,
      <<"CFG-MSGOUT-UBX_RXM_QZSSL6_UART2", 546374460, "U1", 1, "",
        "output rate of the UBX-RXM-QZSSL6 message on port UART2">>,
      <<"CFG-MSGOUT-UBX_RXM_QZSSL6_USB", 546374461, "U1", 1, "",
        "output rate of the UBX-RXM-QZSSL6 message on port USB">>,
      <<"CFG-MSGOUT-UBX_RXM_QZSSL6_SPI", 546374462, "U1", 1, "",
        "output rate of the UBX-RXM-QZSSL6 message on port SPI">>,
      <<"CFG-MSGOUT-UBX_RXM_QZSSL6_I2C", 546374463, "U1", 1, "",
        "output rate of the UBX-RXM-QZSSL6 message on port I2C">>,
      <<"CFG-MSGOUT-UBX_RXM_MEASX2_I2C", 546374593, "U1", 1, "",
        "Output rate of the UBX-RXM-MEASX2 message on port I2C">>,
      <<"CFG-MSGOUT-UBX_RXM_MEASX2_UART1", 546374594, "U1", 1, "",
        "Output rate of the UBX-RXM-MEASX2 message on port UART1">>,
      <<"CFG-MSGOUT-UBX_RXM_MEASX2_UART2", 546374595, "U1", 1, "",
        "Output rate of the UBX-RXM-MEASX2 message on port UART2">>,
      <<"CFG-MSGOUT-UBX_RXM_MEASX2_USB", 546374596, "U1", 1, "",
        "Output rate of the UBX-RXM-MEASX2 message on port USB">>,
      <<"CFG-MSGOUT-UBX_RXM_MEASX2_SPI", 546374597, "U1", 1, "",
        "Output rate of the UBX-RXM-MEASX2 message on port SPI">>,
      <<"CFG-MSGOUT-UBX_RXM_SPARTN_I2C", 546375173, "U1", 1, "",
        "Output rate of the UBX-RXM-SPARTN message on port I2C">>,
      <<"CFG-MSGOUT-UBX_RXM_SPARTN_UART1", 546375174, "U1", 1, "",
        "Output rate of the UBX-RXM-SPARTN message on port UART1">>,
      <<"CFG-MSGOUT-UBX_RXM_SPARTN_UART2", 546375175, "U1", 1, "",
        "Output rate of the UBX-RXM-SPARTN message on port UART2">>,
      <<"CFG-MSGOUT-UBX_RXM_SPARTN_USB", 546375176, "U1", 1, "",
        "Output rate of the UBX-RXM-SPARTN message on port USB">>,
      <<"CFG-MSGOUT-UBX_RXM_SPARTN_SPI", 546375177, "U1", 1, "",
        "Output rate of the UBX-RXM-SPARTN message on port SPI">>,
      <<"CFG-MSGOUT-UBX_RXM_TM_I2C", 546375184, "U1", 1, "",
        "Output rate of the UBX-RXM-TM message on port I2C">>,
      <<"CFG-MSGOUT-UBX_RXM_TM_UART1", 546375185, "U1", 1, "",
        "Output rate of the UBX-RXM-TM message on port UART1">>,
      <<"CFG-MSGOUT-UBX_RXM_TM_UART2", 546375186, "U1", 1, "",
        "Output rate of the UBX-RXM-TM message on port UART2">>,
      <<"CFG-MSGOUT-UBX_RXM_TM_USB", 546375187, "U1", 1, "",
        "Output rate of the UBX-RXM-TM message on port USB">>,
      <<"CFG-MSGOUT-UBX_RXM_TM_SPI", 546375188, "U1", 1, "",
        "Output rate of the UBX-RXM-TM message on port SPI">>,
      <<"CFG-MSGOUT-UBX_RXM_MEASD12_I2C", 546375225, "U1", 1, "",
        "Output rate of the UBX-RXM-MEASD12 message on port I2C">>,
      <<"CFG-MSGOUT-UBX_RXM_MEASD12_UART1", 546375226, "U1", 1, "",
        "Output rate of the UBX-RXM-MEASD12 message on port UART1">>,
      <<"CFG-MSGOUT-UBX_RXM_MEASD12_UART2", 546375227, "U1", 1, "",
        "Output rate of the UBX-RXM-MEASD12 message on port UART2">>,
      <<"CFG-MSGOUT-UBX_RXM_MEASD12_USB", 546375228, "U1", 1, "",
        "Output rate of the UBX-RXM-MEASD12 message on port USB">>,
      <<"CFG-MSGOUT-UBX_RXM_MEASD12_SPI", 546375229, "U1", 1, "",
        "Output rate of the UBX-RXM-MEASD12 message on port SPI">>,
      <<"CFG-MSGOUT-UBX_RXM_MEASC12_I2C", 546375230, "U1", 1, "",
        "Output rate of the UBX-RXM-MEASC12 message on port I2C">>,
      <<"CFG-MSGOUT-UBX_RXM_MEASC12_UART1", 546375231, "U1", 1, "",
        "Output rate of the UBX-RXM-MEASC12 message on port UART1">>,
      <<"CFG-MSGOUT-UBX_RXM_MEASC12_UART2", 546375232, "U1", 1, "",
        "Output rate of the UBX-RXM-MEASC12 message on port UART2">>,
      <<"CFG-MSGOUT-UBX_RXM_MEASC12_USB", 546375233, "U1", 1, "",
        "Output rate of the UBX-RXM-MEASC12 message on port USB">>,
      <<"CFG-MSGOUT-UBX_RXM_MEASC12_SPI", 546375234, "U1", 1, "",
        "Output rate of the UBX-RXM-MEASC12 message on port SPI">>,
      <<"CFG-MSGOUT-UBX_RXM_MEAS20_I2C", 546375235, "U1", 1, "",
        "Output rate of the UBX-RXM-MEAS20 message on port I2C">>,
      <<"CFG-MSGOUT-UBX_RXM_MEAS20_UART1", 546375236, "U1", 1, "",
        "Output rate of the UBX-RXM-MEAS20 message on port UART1">>,
      <<"CFG-MSGOUT-UBX_RXM_MEAS20_UART2", 546375237, "U1", 1, "",
        "Output rate of the UBX-RXM-MEAS20 message on port UART2">>,
      <<"CFG-MSGOUT-UBX_RXM_MEAS20_USB", 546375238, "U1", 1, "",
        "Output rate of the UBX-RXM-MEAS20 message on port USB">>,
      <<"CFG-MSGOUT-UBX_RXM_MEAS20_SPI", 546375239, "U1", 1, "",
        "Output rate of the UBX-RXM-MEAS20 message on port SPI">>,
      <<"CFG-MSGOUT-UBX_RXM_MEAS50_I2C", 546375240, "U1", 1, "",
        "Output rate of the UBX-RXM-MEAS50 message on port I2C">>,
      <<"CFG-MSGOUT-UBX_RXM_MEAS50_UART1", 546375241, "U1", 1, "",
        "Output rate of the UBX-RXM-MEAS50 message on port UART1">>,
      <<"CFG-MSGOUT-UBX_RXM_MEAS50_UART2", 546375242, "U1", 1, "",
        "Output rate of the UBX-RXM-MEAS50 message on port UART2">>,
      <<"CFG-MSGOUT-UBX_RXM_MEAS50_USB", 546375243, "U1", 1, "",
        "Output rate of the UBX-RXM-MEAS50 message on port USB">>,
      <<"CFG-MSGOUT-UBX_RXM_MEAS50_SPI", 546375244, "U1", 1, "",
        "Output rate of the UBX-RXM-MEAS50 message on port SPI">>,
      <<"CFG-MSGOUT-UBX_RXM_COR_I2C", 546375350, "U1", 1, "",
        "Output rate of the UBX-RXM-COR message on port I2C">>,
      <<"CFG-MSGOUT-UBX_RXM_COR_UART1", 546375351, "U1", 1, "",
        "Output rate of the UBX-RXM-COR message on port UART1">>,
      <<"CFG-MSGOUT-UBX_RXM_COR_UART2", 546375352, "U1", 1, "",
        "Output rate of the UBX-RXM-COR message on port UART2">>,
      <<"CFG-MSGOUT-UBX_RXM_COR_USB", 546375353, "U1", 1, "",
        "Output rate of the UBX-RXM-COR message on port USB">>,
      <<"CFG-MSGOUT-UBX_RXM_COR_SPI", 546375354, "U1", 1, "",
        "Output rate of the UBX-RXM-COR message on port SPI">>,
      <<"CFG-MSGOUT-UBX_SEC_SIG_I2C", 546375220, "U1", 1, "",
        "Output rate of the UBX-SEC-SIG message on port I2C">>,
      <<"CFG-MSGOUT-UBX_SEC_SIG_UART1", 546375221, "U1", 1, "",
        "Output rate of the UBX-SEC-SIG message on port UART1">>,
      <<"CFG-MSGOUT-UBX_SEC_SIG_UART2", 546375222, "U1", 1, "",
        "Output rate of the UBX-SEC-SIG message on port UART2">>,
      <<"CFG-MSGOUT-UBX_SEC_SIG_USB", 546375223, "U1", 1, "",
        "Output rate of the UBX-SEC-SIG message on port USB">>,
      <<"CFG-MSGOUT-UBX_SEC_SIG_SPI", 546375224, "U1", 1, "",
        "Output rate of the UBX-SEC-SIG message on port SPI">>,
      <<"CFG-MSGOUT-UBX_SEC_SIGLOG_I2C", 546375305, "U1", 1, "",
        "Output rate of the UBX-SEC-SIGLOG message on port I2C">>,
      <<"CFG-MSGOUT-UBX_SEC_SIGLOG_UART1", 546375306, "U1", 1, "",
        "Output rate of the UBX-SEC-SIGLOG message on port UART1">>,
      <<"CFG-MSGOUT-UBX_SEC_SIGLOG_UART2", 546375307, "U1", 1, "",
        "Output rate of the UBX-SEC-SIGLOG message on port UART2">>,
      <<"CFG-MSGOUT-UBX_SEC_SIGLOG_USB", 546375308, "U1", 1, "",
        "Output rate of the UBX-SEC-SIGLOG message on port USB">>,
      <<"CFG-MSGOUT-UBX_SEC_SIGLOG_SPI", 546375309, "U1", 1, "",
        "Output rate of the UBX-SEC-SIGLOG message on port SPI">>,
      <<"CFG-MSGOUT-UBX_SEC_OSNMA_I2C", 546375370, "U1", 1, "",
        "Output rate of the UBX-SEC-OSNMA message on port I2C">>,
      <<"CFG-MSGOUT-UBX_SEC_OSNMA_UART1", 546375371, "U1", 1, "",
        "Output rate of the UBX-SEC-OSNMA message on port UART1">>,
      <<"CFG-MSGOUT-UBX_SEC_OSNMA_UART2", 546375372, "U1", 1, "",
        "Output rate of the UBX-SEC-OSNMA message on port UART2">>,
      <<"CFG-MSGOUT-UBX_SEC_OSNMA_USB", 546375373, "U1", 1, "",
        "Output rate of the UBX-SEC-OSNMA message on port USB">>,
      <<"CFG-MSGOUT-UBX_SEC_OSNMA_SPI", 546375374, "U1", 1, "",
        "Output rate of the UBX-SEC-OSNMA message on port SPI">>,
      <<"CFG-MSGOUT-UBX_TIM_VRFY_I2C", 546373778, "U1", 1, "",
        "Output rate of the UBX-TIM-VRFY message on port I2C">>,
      <<"CFG-MSGOUT-UBX_TIM_VRFY_UART1", 546373779, "U1", 1, "",
        "Output rate of the UBX-TIM-VRFY message on port UART1">>,
      <<"CFG-MSGOUT-UBX_TIM_VRFY_UART2", 546373780, "U1", 1, "",
        "Output rate of the UBX-TIM-VRFY message on port UART2">>,
      <<"CFG-MSGOUT-UBX_TIM_VRFY_USB", 546373781, "U1", 1, "",
        "Output rate of the UBX-TIM-VRFY message on port USB">>,
      <<"CFG-MSGOUT-UBX_TIM_VRFY_SPI", 546373782, "U1", 1, "",
        "Output rate of the UBX-TIM-VRFY message on port SPI">>,
      <<"CFG-MSGOUT-UBX_TIM_SVIN_I2C", 546373783, "U1", 1, "",
        "Output rate of the UBX-TIM-SVIN message on port I2C">>,
      <<"CFG-MSGOUT-UBX_TIM_SVIN_UART1", 546373784, "U1", 1, "",
        "Output rate of the UBX-TIM-SVIN message on port UART1">>,
      <<"CFG-MSGOUT-UBX_TIM_SVIN_UART2", 546373785, "U1", 1, "",
        "Output rate of the UBX-TIM-SVIN message on port UART2">>,
      <<"CFG-MSGOUT-UBX_TIM_SVIN_USB", 546373786, "U1", 1, "",
        "Output rate of the UBX-TIM-SVIN message on port USB">>,
      <<"CFG-MSGOUT-UBX_TIM_SVIN_SPI", 546373787, "U1", 1, "",
        "Output rate of the UBX-TIM-SVIN message on port SPI">>,
      <<"CFG-MSGOUT-UBX_TIM_TM2_I2C", 546374008, "U1", 1, "",
        "Output rate of the UBX-TIM-TM2 message on port I2C">>,
      <<"CFG-MSGOUT-UBX_TIM_TM2_UART1", 546374009, "U1", 1, "",
        "Output rate of the UBX-TIM-TM2 message on port UART1">>,
      <<"CFG-MSGOUT-UBX_TIM_TM2_UART2", 546374010, "U1", 1, "",
        "Output rate of the UBX-TIM-TM2 message on port UART2">>,
      <<"CFG-MSGOUT-UBX_TIM_TM2_USB", 546374011, "U1", 1, "",
        "Output rate of the UBX-TIM-TM2 message on port USB">>,
      <<"CFG-MSGOUT-UBX_TIM_TM2_SPI", 546374012, "U1", 1, "",
        "Output rate of the UBX-TIM-TM2 message on port SPI">>,
      <<"CFG-MSGOUT-UBX_TIM_TP_I2C", 546374013, "U1", 1, "",
        "Output rate of the UBX-TIM-TP message on port I2C">>,
      <<"CFG-MSGOUT-UBX_TIM_TP_UART1", 546374014, "U1", 1, "",
        "Output rate of the UBX-TIM-TP message on port UART1">>,
      <<"CFG-MSGOUT-UBX_TIM_TP_UART2", 546374015, "U1", 1, "",
        "Output rate of the UBX-TIM-TP message on port UART2">>,
      <<"CFG-MSGOUT-UBX_TIM_TP_USB", 546374016, "U1", 1, "",
        "Output rate of the UBX-TIM-TP message on port USB">>,
      <<"CFG-MSGOUT-UBX_TIM_TP_SPI", 546374017, "U1", 1, "",
        "Output rate of the UBX-TIM-TP message on port SPI">>,
      <<"CFG-NAV2", 270008319, "", 0, "",
        "get all CFG-NAV2">>,
      <<"CFG-NAV2-OUT_ENABLED", 269942785, "L", 1, "",
        "Enable NAV2 output">>,
      <<"CFG-NAV2-SBAS_USE_INTEGRITY", 269942786, "L", 1, "",
        "Use SBAS integrity in NAV2 output">>,
      <<"CFG-NAV2-NAVSPG_ONLY_AUTHDATA", 269942787, "L", 1, "",
        "ONly authenticated data in NAV2 output">>,
      <<"CFG-NAVHPG", 538247167, "", 0, "",
        "get all CFG-NAVHPG">>,
      <<"CFG-NAVHPG-DGNSSMODE", 538181649, "E1", 1, "",
        "Differential corrections mode">>,
      <<"CFG-NAVMASK", 270073855, "", 0, "",
        "get all CFG-NAVMASK">>,
      <<"CFG-NAVMASK-EL_MASK_000_020", 1343750145, "X8", 1, "",
        "Elevation mask for 0 <= Az < 20">>,
      <<"CFG-NAVMASK-EL_MASK_020_040", 1343750146, "X8", 1, "",
        "Elevation mask for 20 <= Az < 40">>,
      <<"CFG-NAVMASK-EL_MASK_040_060", 1343750147, "X8", 1, "",
        "Elevation mask for 40 <= Az < 60">>,
      <<"CFG-NAVMASK-EL_MASK_060_080", 1343750148, "X8", 1, "",
        "Elevation mask for 40 <= Az < 60">>,
      <<"CFG-NAVMASK-EL_MASK_080_100", 1343750149, "X8", 1, "",
        "Elevation mask for 80 <= Az < 100">>,
      <<"CFG-NAVMASK-EL_MASK_100_120", 1343750150, "X8", 1, "",
        "Elevation mask for 100 <= Az < 120">>,
      <<"CFG-NAVMASK-EL_MASK_120_140", 1343750151, "X8", 1, "",
        "Elevation mask for 120 <= Az < 140">>,
      <<"CFG-NAVMASK-EL_MASK_140_160", 1343750152, "X8", 1, "",
        "Elevation mask for 140 <= Az < 160">>,
      <<"CFG-NAVMASK-EL_MASK_160_180", 1343750153, "X8", 1, "",
        "Elevation mask for 160 <= Az < 180">>,
      <<"CFG-NAVMASK-EL_MASK_180_200", 1343750154, "X8", 1, "",
        "Elevation mask for 180 <= Az < 200">>,
      <<"CFG-NAVMASK-EL_MASK_200_220", 1343750155, "X8", 1, "",
        "Elevation mask for 200 <= Az < 220">>,
      <<"CFG-NAVMASK-EL_MASK_220_240", 1343750156, "X8", 1, "",
        "Elevation mask for 220 <= Az < 240">>,
      <<"CFG-NAVMASK-EL_MASK_240_260", 1343750157, "X8", 1, "",
        "Elevation mask for 240 <= Az < 260">>,
      <<"CFG-NAVMASK-EL_MASK_260_280", 1343750158, "X8", 1, "",
        "Elevation mask for 260 <= Az < 280">>,
      <<"CFG-NAVMASK-EL_MASK_280_300", 1343750159, "X8", 1, "",
        "Elevation mask for 280 <= Az < 300">>,
      <<"CFG-NAVMASK-EL_MASK_300_320", 1343750160, "X8", 1, "",
        "Elevation mask for 300 <= Az < 320">>,
      <<"CFG-NAVMASK-EL_MASK_320_340", 1343750161, "X8", 1, "",
        "Elevation mask for 320 <= Az < 340">>,
      <<"CFG-NAVMASK-EL_MASK_340_360", 1343750162, "X8", 1, "",
        "Elevation mask for 340 <= Az < 660">>,
      <<"CFG-NAVMASK-SV_MASK_GPS", 1343750163, "X8", 1, "",
        "Sat mask for GPS">>,
      <<"CFG-NAVMASK-SV_MASK_GAL", 1343750164, "X8", 1, "",
        "Sat mask for Galileo">>,
      <<"CFG-NAVMASK-SV_MASK_GLO", 1343750165, "X8", 1, "",
        "Sat mask for GLONASS">>,
      <<"CFG-NAVMASK-SV_MASK_BDS", 1343750166, "X8", 1, "",
        "Sat mask for BeiDou">>,
      <<"CFG-NAVMASK-SV_MASK_QZSS", 1343750167, "X8", 1, "",
        "Sat mask for QZSS">>,
      <<"CFG-NAVMASK-SV_MASK_NAVIC", 1343750168, "X8", 1, "",
        "Sat mask for NaVIC">>,
      <<"CFG-NAVSPG", 538050559, "", 0, "",
        "get all CFG-NAVSPG">>,
      <<"CFG-NAVSPG-FIXMODE", 537985041, "E1", 1, "",
        "Position fix mode">>,
      <<"CFG-NAVSPG-INIFIX3D", 269549587, "L", 1, "",
        "Initial fix must be a 3d fix">>,
      <<"CFG-NAVSPG-WKNROLLOVER", 806420503, "U2", 1, "",
        "GPS week rollover number">>,
      <<"CFG-NAVSPG-USE_PPP", 269549593, "L", 1, "",
        "Use Precise Point Positioning">>,
      <<"CFG-NAVSPG-UTCSTANDARD", 537985052, "E1", 1, "",
        "UTC standard to be used">>,
      <<"CFG-NAVSPG-DYNMODEL", 537985057, "E1", 1, "",
        "Dynamic platform model">>,
      <<"CFG-NAVSPG-ACKAIDING", 269549605, "L", 1, "",
        "Acknowledge assistance input messages">>,
      <<"CFG-NAVSPG-USE_USRDAT", 269549665, "L", 1, "",
        "Use user geodetic datum">>,
      <<"CFG-NAVSPG-USRDAT_MAJA", 1343291490, "R8", 1, "m",
        "Geodetic datum semi-major axis">>,
      <<"CFG-NAVSPG-USRDAT_FLAT", 1343291491, "R8", 1, "",
        "Geodetic datum 1.0 / flattening">>,
      <<"CFG-NAVSPG-USRDAT_DX", 1074856036, "R4", 1, "m",
        "Geodetic datum X axis shift at the origin">>,
      <<"CFG-NAVSPG-USRDAT_DY", 1074856037, "R4", 1, "m",
        "Geodetic datum Y axis shift at the origin">>,
      <<"CFG-NAVSPG-USRDAT_DZ", 1074856038, "R4", 1, "m",
        "Geodetic datum Z axis shift at the origin">>,
      <<"CFG-NAVSPG-USRDAT_ROTX", 1074856039, "R4", 1, "arcsec",
        "Geodetic datum rotation about the X axis">>,
      <<"CFG-NAVSPG-USRDAT_ROTY", 1074856040, "R4", 1, "arcsec",
        "Geodetic datum rotation about the Y axis ()">>,
      <<"CFG-NAVSPG-USRDAT_ROTZ", 1074856041, "R4", 1, "arcsec",
        "Geodetic datum rotation about the Z axis">>,
      <<"CFG-NAVSPG-USRDAT_SCALE", 1074856042, "R4", 1, "ppm",
        "Geodetic datum scale factor">>,
      <<"CFG-NAVSPG-INFIL_MINSVS", 537985185, "U1", 1, "",
        "Minimum number of satellites for navigation">>,
      <<"CFG-NAVSPG-INFIL_MAXSVS", 537985186, "U1", 1, "",
        "Maximum number of satellites for navigation">>,
      <<"CFG-NAVSPG-INFIL_MINCNO", 537985187, "U1", 1, "dBHz",
        "Minimum satellite signal level for navigation">>,
      <<"CFG-NAVSPG-INFIL_MINELEV", 537985188, "I1", 1, "deg",
        "Minimum elevation for a GNSS satellite to be used in navigation">>,
      <<"CFG-NAVSPG-INFIL_NCNOTHRS", 537985194, "U1", 1, "",
        "Number of satellites required to have C/N0 above CFG-NAVSPG-INFIL_CNOTHRS for a fix to be attempted">>,
      <<"CFG-NAVSPG-INFIL_CNOTHRS", 537985195, "U1", 1, "",
        "C/N0 threshold for deciding whether to attempt a fix">>,
      <<"CFG-NAVSPG-OUTFIL_PDOP", 806420657, "U2", "0.1", "",
        "Output filter position DOP mask (threshold)">>,
      <<"CFG-NAVSPG-OUTFIL_TDOP", 806420658, "U2", "0.11", "",
        "Output filter time DOP mask (threshold)">>,
      <<"CFG-NAVSPG-OUTFIL_PACC", 806420659, "U2", 1, "m",
        "Output filter position accuracy mask (threshold)">>,
      <<"CFG-NAVSPG-OUTFIL_TACC", 806420660, "U2", 1, "m",
        "Output filter time accuracy mask (threshold)">>,
      <<"CFG-NAVSPG-OUTFIL_FACC", 806420661, "U2", "0.01", "m/s",
        "Output filter frequency accuracy mask (threshold)">>,
      <<"CFG-NAVSPG-CONSTR_ALT", 1074856129, "I4", "0.01", "m",
        "Fixed altitude (mean sea level) for 2D fix mode">>,
      <<"CFG-NAVSPG-CONSTR_ALTVAR", 1074856130, "U4", "0.0001", "M^2",
        "Fixed altitude variance for 2D mode">>,
      <<"CFG-NAVSPG-CONSTR_PROPLIMIT", 1074856131, "U4", 1, "",
        "Limit for propagating the state after NOFIX">>,
      <<"CFG-NAVSPG-CONSTR_DGNSSTO", 537985220, "U1", 1, "s",
        "DGNSS timeout">>,
      <<"CFG-NAVSPG-CONSTR_DGNSSTO_SCALE", 537985221, "U1", 1, "s",
        "DGNSS timeout scale">>,
      <<"CFG-NAVSPG-SIGATTCOMP", 537985238, "E1", 1, "",
        "Permanently attenuated signal compensation mode">>,
      <<"CFG-NAVSPG-PL_ENA", 269549783, "L", 1, "",
        "Protection level, if enabled">>,
      <<"CFG-NAVSPG-ONLY_AUTHDATA", 269549789, "L", 1, "",
        "Protection level, if enabled">>,
      <<"CFG-NAVSPG-MAX_TIMETRUSTED_ACC", 806420702, "U2", 1, "",
        "Maximum trusted time accuracy">>,
      <<"CFG-NMEA", 546570239, "", 0, "",
        "get all CFG-NMEA">>,
      <<"CFG-NMEA-PROTVER", 546504705, "E1", 1, "",
        "NMEA protocol version">>,
      <<"CFG-NMEA-MAXSVS", 546504706, "E1", 1, "",
        "Maximum number of SVs to report per Talker ID">>,
      <<"CFG-NMEA-COMPAT", 278069251, "L", 1, "",
        "Enable compatibility mode">>,
      <<"CFG-NMEA-CONSIDER", 278069252, "L", 1, "",
        "Enable considering mode">>,
      <<"CFG-NMEA-LIMIT82", 278069253, "L", 1, "",
        "Enable strict limit to 82 characters maximum NMEA message length">>,
      <<"CFG-NMEA-HIGHPREC", 278069254, "L", 1, "",
        "Enable high precision mode">>,
      <<"CFG-NMEA-SVNUMBERING", 546504711, "E1", 1, "",
        "Display configuration for SVs that have no value defined in NMEA">>,
      <<"CFG-NMEA-FILT_GPS", 278069265, "L", 1, "",
        "Disable reporting of GPS satellites">>,
      <<"CFG-NMEA-FILT_SBAS", 278069266, "L", 1, "",
        "Disable reporting of SBAS satellites">>,
      <<"CFG-NMEA-FILT_GAL", 278069267, "L", 1, "",
        "Disable reporting of GALILEO satellites">>,
      <<"CFG-NMEA-FILT_QZSS", 278069269, "L", 1, "",
        "Disable reporting of QZSS satellites">>,
      <<"CFG-NMEA-FILT_GLO", 278069270, "L", 1, "",
        "Disable reporting of GLONASS satellites">>,
      <<"CFG-NMEA-FILT_BDS", 278069271, "L", 1, "",
        "Disable reporting of BeiDou satellites">>,
      <<"CFG-NMEA-FILT_NAVIC", 278069272, "L", 1, "",
        "Disable reporting of NavIC satellites">>,
      <<"CFG-NMEA-OUT_INVFIX", 278069281, "L", 1, "",
        "Enable position output for failed or invalid fixes">>,
      <<"CFG-NMEA-OUT_MSKFIX", 278069282, "L", 1, "",
        "Enable position output for invalid fixes">>,
      <<"CFG-NMEA-OUT_INVTIME", 278069283, "L", 1, "",
        "Enable time output for invalid times">>,
      <<"CFG-NMEA-OUT_INVDATE", 278069284, "L", 1, "",
        "Enable date output for invalid dates">>,
      <<"CFG-NMEA-OUT_ONLYGPS", 278069285, "L", 1, "",
        "Restrict output to GPS satellites only">>,
      <<"CFG-NMEA-OUT_FROZENCOG", 278069286, "L", 1, "",
        "Enable course over ground output even if it is frozen">>,
      <<"CFG-NMEA-MAINTALKERID", 546504753, "E1", 1, "",
        "Main Talker ID">>,
      <<"CFG-NMEA-GSVTALKERID", 546504754, "E1", 1, "",
        "Talker ID for GSV NMEA messages">>,
      <<"CFG-NMEA-BDSTALKERID", 814940211, "U2", 1, "",
        "BeiDou Talker ID">>,
      <<"CFG-ODO", 270729215, "", 0, "",
        "get all CFG-ODO">>,
      <<"CFG-ODO-USE_ODO", 270663681, "L", 1, "",
        "Use odometer">>,
      <<"CFG-ODO-USE_COG", 270663682, "L", 1, "",
        "Use low-speed course over ground filter">>,
      <<"CFG-ODO-OUTLPVEL", 270663683, "L", 1, "",
        "Output low-pass filtered velocity">>,
      <<"CFG-ODO-OUTLPCOG", 270663684, "L", 1, "",
        "Output low-pass filtered course over ground (heading)">>,
      <<"CFG-ODO-PROFILE", 539099141, "E1", 1, "",
        "Odometer profile configuration">>,
      <<"CFG-ODO-COGMAXSPEED", 539099169, "U1", 1, "m/s",
        "Upper speed limit for low-speed course over ground filter">>,
      <<"CFG-ODO-COGMAXPOSACC", 539099170, "U1", 1, "",
        "Maximum acceptable position accuracy for computing low-speed  filtered course over ground">>,
      <<"CFG-ODO-VELLPGAIN", 539099185, "U1", 1, "",
        "Velocity low-pass filter level">>,
      <<"CFG-ODO-COGLPGAIN", 539099186, "U1", 1, "",
        "Course over ground low-pass filter level (at speed < 8 m/s)">>,
      <<"CFG-PM", 550567935, "", 0, "",
        "get all CFG-PM, receiver power management">>,
      <<"CFG-PM-OPERATEMODE", 550502401, "E1", 1, "",
        "set PSMOO or PSMCT mode">>,
      <<"CFG-PM-POSUPDATEPERIOD", 1087373314, "U4", 1, "",
        "Position update period for PSMOO.">>,
      <<"CFG-PM-ACQPERIOD", 1087373315, "U4", 1, "s",
        "Acquisition period if receiver fails to achieve a position fix">>,
      <<"CFG-PM-GRIDOFFSET", 1087373316, "U4", 1, "s",
        "Position update period grid offset relative to GPS start of week.">>,
      <<"CFG-PM-ONTIME", 818937861, "U2", 1, "s",
        "Time to stay in Tracking state.">>,
      <<"CFG-PM-MINACQTIME", 550502406, "U1", 1, "s",
        "Minimum time to spend in Acquisition state">>,
      <<"CFG-PM-MAXACQTIME", 550502407, "U1", 1, "s",
        "Maximum time to spend in Acquisition state">>,
      <<"CFG-PM-DONOTENTEROFF", 282066952, "L", 1, "",
        "Behavior when failure to achieve a position during update period.">>,
      <<"CFG-PM-WAITTIMEFIX", 282066953, "L", 1, "",
        "wait for time fix">>,
      <<"CFG-PM-UPDATEEPH", 282066954, "L", 1, "",
        "Update ephemeris regularly.">>,
      <<"CFG-PM-EXTINTSEL", 550502411, "E1", 1, "",
        "EXTINT pin select.">>,
      <<"CFG-PM-EXTINTWAKE", 282066956, "L", 1, "",
        "EXTINT pin control (Wake)">>,
      <<"CFG-PM-EXTINTBACKUP", 282066957, "L", 1, "",
        "EXTINT pin control (Backup)">>,
      <<"CFG-PM-EXTINTINACTIVE", 282066958, "L", 1, "",
        "EXTINT pin control (Inactive)">>,
      <<"CFG-PM-UPDATEEPH", 282066957, "U4", "0.001", "s",
        "Inactivity time out on EXTINT pin if enabled">>,
      <<"CFG-PM-EXTINTINACTIVITY", 1087373327, "U4", 1, "s",
        "Inactivity time out on EXTINT pin if enabled">>,
      <<"CFG-PM-LIMITPEAKCURR", 282066960, "L", 1, "",
        "Limit peak current">>,
      <<"CFG-PMP", 280100863, "", 0, "",
        "get all CFG-PMP">>,
      <<"CFG-QZSS", 808976383, "", 0, "s",
        "get all CFG-QZSS">>,
      <<"CFG-QZSS-USE_SLAS_DGNSS", 272039941, "L", "0.001", "",
        "Apply QZSS SLAS DGNSS corrections">>,
      <<"CFG-QZSS-USE_SLAS_TESTMODE", 272039942, "L", "0.001", "",
        "Use QZSS SLAS data when it is in test mode">>,
      <<"CFG-QZSS-USE_SLAS_RAIM_UNCORR", 272039943, "L", "0.001", "",
        "Raim out measurements that are not corrected by QZSS SLAS">>,
      <<"CFG-QZSS-SLAS_MAX_BASELINE", 808910856, "U2", 1, "km",
        "Max baseline to closest GMS">>,
      <<"CFG-QZSS-L6_SVIDA", 540475424, "I1", 1, "",
        "QZSS L6 SV Id to be decoded by channel A">>,
      <<"CFG-QZSS-L6_SVIDB", 540475440, "I1", 1, "",
        "QZSS L6 SV Id to be decoded by channel B">>,
      <<"CFG-QZSS-L6_MSGA", 540475472, "E1", 1, "",
        "QZSS L6 messages to be decoded by channel A">>,
      <<"CFG-QZSS-L6_MSGB", 540475488, "E1", 1, "",
        "QZSS L6 messages to be decoded by channel B">>,
      <<"CFG-QZSS-L6_RSDECODER", 540475520, "E1", 1, "",
        "QZSS L6 message Reed-Solomon decoder mode">>,
      <<"CFG-RATE", 807534591, "", 0, "s",
        "get all CFG-RATE">>,
      <<"CFG-RATE-MEAS", 807469057, "U2", "0.001", "s",
        "Nominal time between GNSS measurements">>,
      <<"CFG-RATE-NAV", 807469058, "U2", 1, "",
        "Ratio of number of measurements to number of navigation solutions">>,
      <<"CFG-RATE-TIMEREF", 539033603, "E1", 1, "",
        "Time system to which measurements are aligned">>,
      <<"CFG-RATE-NAV_PRIO", 539033604, "U1", 1, "",
        "Time system to whichpirority nav measurements are output">>,
      <<"CFG-RINV", 281542655, "", 0, "",
        "get all CFG-RINV">>,
      <<"CFG-RINV-DUMP", 281477121, "L", 1, "",
        "Dump data at startup">>,
      <<"CFG-RINV-BINARY", 281477122, "L", 1, "",
        "Data is binary">>,
      <<"CFG-RINV-DATA_SIZE", 549912579, "U1", 1, "",
        "Size of data">>,
      <<"CFG-RINV-CHUNK0", 1355218948, "X8", 1, "",
        "Data bytes 1-8 (LSB)">>,
      <<"CFG-RINV-CHUNK1", 1355218949, "X8", 1, "",
        "Data bytes 9-16">>,
      <<"CFG-RINV-CHUNK2", 1355218950, "X8", 1, "",
        "Data bytes 17-24">>,
      <<"CFG-RINV-CHUNK3", 1355218951, "X8", 1, "",
        "Data bytes 25-30 (MSB)">>,
      <<"CFG-RTCM", 269090815, "", 0, "",
        "get all CFG-RTCM">>,
      <<"CFG-RTCM-DF003_OUT", 805896193, "U2", 1, "",
        "RTCM DF003 reference station ID (output)">>,
      <<"CFG-RTCM-DF003_IN", 805896200, "U2", 1, "",
        "RTCM DF003 reference station ID (input)">>,
      <<"CFG-RTCM-DF003_IN_FILTER", 537460745, "E1", 1, "",
        "RTCM input filter configuration based on DF003 value">>,
      <<"CFG-SBAS", 272039935, "", 0, "",
        "get all CFG-SBAS">>,
      <<"CFG-SBAS-USE_TESTMODE", 271974402, "L", 1, "",
        "Use SBAS data when it is in test mode">>,
      <<"CFG-SBAS-USE_RANGING", 271974403, "L", 1, "",
        "Use SBAS GEOs as a ranging source (for navigation)">>,
      <<"CFG-SBAS-USE_DIFFCORR", 271974404, "L", 1, "",
        "Use SBAS differential corrections">>,
      <<"CFG-SBAS-USE_INTEGRITY", 271974405, "L", 1, "",
        "Use SBAS integrity information">>,
      <<"CFG-SBAS-PRNSCANMASK", 1345716230, "X8", 1, "",
        "SBAS PRN search configuration">>,
      <<"CFG-SBAS-USE_IONOONLY", 271974407, "L", 1, "",
        "Use only SBAS ionosphere correctiopn">>,
      <<"CFG-SBAS-ACCEPT_NOT_IN_PRNMASK", 808845320, "X2", 1, "",
        "Accept SBAS not in PRN mask">>,
      <<"CFG-SEC", 284622847, "", 0, "",
        "get all CFG-SEC">>,
      <<"CFG-SEC-CFG_LOCK", 284557321, "L", 1, "",
        "Configuration lockdown">>,
      <<"CFG-SEC-CFG_LOCK_UNLOCKGRP1", 821428234, "U2", 1, "",
        "Configuration lockdown exempted group 1">>,
      <<"CFG-SEC-CFG_LOCK_UNLOCKGRP2", 821428235, "U2", 1, "",
        "Configuration lockdown exempted group 2">>,
      <<"CFG-SEC-JAMDET_SENSITIVITY_HI", 284557393, "L", 1, "",
        "HIgh sensitivity jam detection">>,
      <<"CFG-SEC-SPOOFDET_SIM_SIG_DIS", 284557405, "L", 1, "",
        "Disable spoof detection">>,
      <<"CFG-SFCORE", 269025279, "", 0, "",
        "get all CFG-SFCORE">>,
      <<"CFG-SFCORE-USE_SF", 268959745, "L", 1, "",
        "Use ADR/UDR sensor fusion">>,
      <<"CFG-SFCORE-IMU2CRP_LA_X", 805830658, "I2", 1, "cm",
        "X coordinate of IMU-to-CRP ">>,
      <<"CFG-SFCORE-IMU2CRP_LA_Y", 805830659, "I2", 1, "cm",
        "Y coordinate of IMU-to-CRP ">>,
      <<"CFG-SFCORE-IMU2CRP_LA_Z", 805830660, "I2", 1, "cm",
        "Z coordinate of IMU-to-CRP ">>,
      <<"CFG-SFCORE-HNR_RATE", 537395226, "U1", 1, "",
        "Rate of navigation solution output">>,
      <<"CFG-SFIMU", 268894207, "", 0, "",
        "get all CFG-SFIMU">>,
      <<"CFG-SFIMU-GYRO_TC_UPDATE_PERIOD", 805699591, "U2", 1, "s",
        "Update period for gyro bias table">>,
      <<"CFG-SFIMU-GYRO_RMSTHDL", 537264136, "U1", "2e-08", "deg/s",
        "Gyro sensor RMS threshold">>,
      <<"CFG-SFIMU-GYRO_FREQUENCY", 537264137, "U1", 1, "Hz",
        "Gyro sampling grequency">>,
      <<"CFG-SFIMU-GYRO_LATENCY", 805699594, "U2", 1, "ms",
        "Gyro latency">>,
      <<"CFG-SFIMU-GYRO_ACCURACY", 805699595, "U2", "0.001", "deg/s",
        "Gyro Accuracy">>,
      <<"CFG-SFIMU-ACCEL_RMSTHDL", 537264149, "U1", "2e-06", "m/s^2",
        "Accel sensor RMS threshold">>,
      <<"CFG-SFIMU-ACCEL_FREQUENCY", 537264150, "U1", 1, "Hz",
        "Accel sampling grequency">>,
      <<"CFG-SFIMU-ACCEL_LATENCY", 805699607, "U2", 1, "ms",
        "Accel latency">>,
      <<"CFG-SFIMU-ACCEL_ACCURACY", 805699608, "U2", "0.0001", "m/s^2",
        "Accel Accuracy">>,
      <<"CFG-SFIMU-IMU_EN", 268828701, "L", 1, "",
        "IMU enabled">>,
      <<"CFG-SFIMU-IMU_I2C_SCL_PIO", 537264158, "U1", 1, "",
        "SCL PIO of IMU">>,
      <<"CFG-SFIMU-IMU_I2C_SDA_PIO", 537264159, "U1", 1, "",
        "SCL PIO of IMU">>,
      <<"CFG-SFIMU-IMU2ANT_LA_X", 805699616, "I2", 1, "cm",
        "X of  IMU-to-ANT">>,
      <<"CFG-SFIMU-IMU2ANT_LA_Y", 805699617, "I2", 1, "cm",
        "Y of  IMU-to-ANT">>,
      <<"CFG-SFIMU-IMU2ANT_LA_Z", 805699618, "I2", 1, "cm",
        "Z of  IMU-to-ANT">>,
      <<"CFG-SFIMU-AUTO_MNTALG_ENA", 268828711, "L", 1, "",
        "Auto IMU algnment enable">>,
      <<"CFG-SFIMU-IMU_MNTALG_YAW", 1074135085, "U4", "0.01", "deg",
        "IMU yaw angle">>,
      <<"CFG-SFIMU-IMU_MNTALG_PITCH", 805699630, "I2", "0.01", "deg",
        "IMU pitch angle">>,
      <<"CFG-SFIMU-IMU_MNTALG_ROLL", 805699631, "I2", "0.01", "deg",
        "IMU roll angle">>,
      <<"CFG-SFIMU-IMU_MNTALG_TOLERANCE", 537264176, "E1", 1, "",
        "User-defined IMU mount alignment angles tolerance level">>,
      <<"CFG-SFODO", 268959743, "", 0, "",
        "get all CFG-SFODO">>,
      <<"CFG-SFODO-COMBINE_TICKS", 268894209, "L", 1, "",
        "Use combined rear WT instead of the single tick.">>,
      <<"CFG-SFODO-USE_SPEED", 268894211, "L", 1, "",
        "Use speed measurements">>,
      <<"CFG-SFODO-DIS_AUTOCOUNTMAX", 268894212, "L", 1, "",
        "Disable automatic estimation of WT ctr">>,
      <<"CFG-SFODO-DIS_AUTODIRPINPOL", 268894213, "L", 1, "",
        "Disable automatic WT direction pin polarity detection">>,
      <<"CFG-SFODO-DIS_AUTOSPEED", 268894214, "L", 1, "",
        "Disable automatic receiver reconfig speed instead WT data">>,
      <<"CFG-SFODO-FACTOR", 1074200583, "U4", "1e-06", "",
        "WT scale factor">>,
      <<"CFG-SFODO-QUANT_ERROR", 1074200584, "U4", "1e-06", "",
        "WT quantization">>,
      <<"CFG-SFODO-COUNT_MAX", 1074200585, "U4", 1, "",
        "WT ctr max value">>,
      <<"CFG-SFODO-LATENCY", 805765130, "U2", 1, "ms",
        "WT data latency">>,
      <<"CFG-SFODO-FREQUENCY", 537329675, "U1", 1, "Hz",
        "nominal WT data freq (0=not set)">>,
      <<"CFG-SFODO-CNT_BOTH_EDGES", 268894221, "L", 1, "",
        "Count both rising and falling edges on WT signal">>,
      <<"CFG-SFODO-SPEED_BAND", 805765134, "U2", 1, "cm/s",
        "Speed sensor dead band (0 = not set)">>,
      <<"CFG-SFODO-USE_WT_PIN", 268894223, "L", 1, "",
        "Flag indicating that WT signal is connected.">>,
      <<"CFG-SFODO-DIR_PINPOL", 268894224, "L", 1, "",
        "WT direction pin polarity">>,
      <<"CFG-SFODO-DIS_AUTOSW", 268894225, "L", 1, "",
        "Disa auto use of WT or speed data received over SW interface">>,
      <<"CFG-SFODO-IMU2VRP_LA_X", 805765138, "I2", 1, "cm",
        "X coordinate of IMU-to-VRP lever-arm in the installation frame">>,
      <<"CFG-SFODO-IMU2VRP_LA_Y", 805765139, "I2", 1, "cm",
        "Y coordinate of IMU-to-VRP lever-arm in the installation frame">>,
      <<"CFG-SFODO-IMU2VRP_LA_Z", 805765140, "I2", 1, "cm",
        "X coordinate of IMU-to-VRP lever-arm in the installation frame">>,
      <<"CFG-SFODO-DIS_DIR_INFO", 268894236, "L", 1, "",
        "Do not use directional information">>,
      <<"CFG-PMP", 269221887, "", 0, "",
        "get all CFG-PMP">>,
      <<"CFG-PMP-CENTER_FREQUENCY", 1085341713, "U4", 1, "",
        "Center frequency">>,
      <<"CFG-PMP-SEARCH_WINDOW", 816906258, "U2", 1, "",
        "Search window">>,
      <<"CFG-PMP-DATA_RATE", 816906259, "E2", 1, "",
        "Data rate">>,
      <<"CFG-PMP-USE_DESCRAMBLER", 280035348, "L", 1, "",
        "Use descrambler">>,
      <<"CFG-PMP-DESCRAMBLER_INIT", 816906261, "U2", 1, "",
        "Descrambler initialization">>,
      <<"CFG-PMP-USE_SERVICE_ID", 280035350, "L", 1, "",
        "Use service ID">>,
      <<"CFG-PMP-SERVICE_ID", 816906263, "U2", 1, "",
        "Service identifier">>,
      <<"CFG-PMP-USE_PRESCRAMBLING", 280035353, "L", 1, "",
        "Use prescrambling">>,
      <<"CFG-PMP-UNIQUE_WORD", 1353777178, "U8", 1, "",
        "Unique word">>,
      <<"CFG-SIGNAL", 271712255, "", 0, "",
        "get all CFG-SIGNAL">>,
      <<"CFG-SIGNAL-GPS_L1CA_ENA", 271646721, "L", 1, "",
        "GPS L1C/5 enable">>,
      <<"CFG-SIGNAL-GPS_L2C_ENA", 271646723, "L", 1, "",
        "GPS L25 enable">>,
      <<"CFG-SIGNAL-GPS_L5_ENA", 271646724, "L", 1, "",
        "GPS L5 enable">>,
      <<"CFG-SIGNAL-SBAS_L1CA_ENA", 271646725, "L", 1, "",
        "SBAS L1C/A enable">>,
      <<"CFG-SIGNAL-GAL_E1_ENA", 271646727, "L", 1, "",
        "GAL E1 enable">>,
      <<"CFG-SIGNAL-GAL_E5A_ENA", 271646729, "L", 1, "",
        "GAL E5A enable">>,
      <<"CFG-SIGNAL-GAL_E5B_ENA", 271646730, "L", 1, "",
        "GAL E5b enable">>,
      <<"CFG-SIGNAL-GAL_E6_ENA", 271646731, "L", 1, "",
        "GAL E6 enable">>,
      <<"CFG-SIGNAL-BDS_B1_ENA", 271646733, "L", 1, "",
        "BeiDou B1I enable">>,
      <<"CFG-SIGNAL-BDS_B2_ENA", 271646734, "L", 1, "",
        "BeiDou B2I enable">>,
      <<"CFG-SIGNAL-BDS_B1C_ENA", 271646735, "L", 1, "",
        "BeiDou B1C enable">>,
      <<"CFG-SIGNAL-BDS_B3_ENA", 271646736, "L", 1, "",
        "BDS B3 enable">>,
      <<"CFG-SIGNAL-QZSS_L1CA_ENA", 271646738, "L", 1, "",
        "QZSS L1C/A enable">>,
      <<"CFG-SIGNAL-QZSS_L1S_ENA", 271646740, "L", 1, "",
        "QZSS L1S enable">>,
      <<"CFG-SIGNAL-QZSS_L2C_ENA", 271646741, "L", 1, "",
        "QZSS L2C enable">>,
      <<"CFG-SIGNAL-QZSS_L5_ENA", 271646743, "L", 1, "",
        "QZSS_L5 enable">>,
      <<"CFG-SIGNAL-GLO_L1_ENA", 271646744, "L", 1, "",
        "GLONASS L1 enable">>,
      <<"CFG-SIGNAL-GLO_L2_ENA", 271646746, "L", 1, "",
        "GLONASS L2 enable">>,
      <<"CFG-SIGNAL-NAVIC_L5_ENA", 271646749, "L", 1, "",
        "NavIC L5 enable">>,
      <<"CFG-SIGNAL-GPS_ENA", 271646751, "L", 1, "",
        "GPS enable">>,
      <<"CFG-SIGNAL-SBAS_ENA", 271646752, "L", 1, "",
        "SBAS enable">>,
      <<"CFG-SIGNAL-GAL_ENA", 271646753, "L", 1, "",
        "Galileo enable">>,
      <<"CFG-SIGNAL-BDS_ENA", 271646754, "L", 1, "",
        "BeiDou Enable">>,
      <<"CFG-SIGNAL-QZSS_ENA", 271646756, "L", 1, "",
        "QZSS enable">>,
      <<"CFG-SIGNAL-GLO_ENA", 271646757, "L", 1, "",
        "GLONASS enable">>,
      <<"CFG-SIGNAL-NAVIC_ENA", 271646758, "L", 1, "",
        "NavIC enable">>,
      <<"CFG-SIGNAL-BDS_B2A_ENA", 271646760, "L", 1, "",
        "BDS B2A enable">>,
      <<"CFG-SIGNAL-IGNORE_BAND_OTP", 271646761, "L", 1, "",
        "Enable all bands disregarding OTP band file. For production  testing.">>,
      <<"CFG-SIGNAL-QZSS_L1CB_ENA", 271646777, "L", 1, "",
        "QZSS L1C/B">>,
      <<"CFG-SIGNAL-PLAN", 540082234, "E1", 1, "",
        "SIGNAL PLAN">>,
      <<"CFG-SPARTN", 279445503, "", 0, "",
        "get all CFG-SPARTN">>,
      <<"CFG-SPARTN-USE_SOURCE", 547815425, "E1", 1, "",
        "Selector for source SPARTN stream">>,
      <<"CFG-SPI", 275054591, "", 0, "",
        "get all CFG-SPI">>,
      <<"CFG-SPI-MAXFF", 543424513, "U1", 1, "",
        "Number of bytes containing 0xFF to receive before switching off reception.">>,
      <<"CFG-SPI-CPOLARITY", 274989058, "L", 1, "",
        "Clock polarity select">>,
      <<"CFG-SPI-CPHASE", 274989059, "L", 1, "",
        "Clock phase select">>,
      <<"CFG-SPI-EXTENDEDTIMEOUT", 274989061, "L", 1, "",
        "Flag to disable timeouting the interface after 1.5s">>,
      <<"CFG-SPI-ENABLED", 274989062, "L", 1, "",
        "Flag to indicate if the SPI interface should be enabled">>,
      <<"CFG-SPIINPROT", 276430847, "", 0, "",
        "get all CFG-SPIINPROT">>,
      <<"CFG-SPIINPROT-UBX", 276365313, "L", 1, "",
        "Flag to indicate if UBX should be an input protocol on SPI">>,
      <<"CFG-SPIINPROT-NMEA", 276365314, "L", 1, "",
        "Flag to indicate if NMEA should be an input protocol on SPI">>,
      <<"CFG-SPIINPROT-RTCM2X", 276365315, "L", 1, "",
        "Flag to indicate if RTCM2X should be an input protocol on SPI">>,
      <<"CFG-SPIINPROT-RTCM3X", 276365316, "L", 1, "",
        "Flag to indicate if RTCM3X should be an input protocol on SPI">>,
      <<"CFG-SPIINPROT-SPARTN", 276365317, "L", 1, "",
        "Flag to indicate if SPARTN should be an input protocol on SPI">>,
      <<"CFG-SPIOUTPROT", 276496383, "", 0, "",
        "get all CFG-SPIOUTPROT">>,
      <<"CFG-SPIOUTPROT-UBX", 276430849, "L", 1, "",
        "Flag to indicate if UBX should be an output protocol on SPI">>,
      <<"CFG-SPIOUTPROT-NMEA", 276430850, "L", 1, "",
        "Flag to indicate if NMEA should be an output protocol on SPI">>,
      <<"CFG-SPIOUTPROT-RTCM3X", 276430852, "L", 1, "",
        "Flag to indicate if RTCM3X should be an output protocol on SPI">>,
      <<"CFG-TMODE", 537133055, "", 0, "",
        "get all CFG-TMODE">>,
      <<"CFG-TMODE-MODE", 537067521, "E1", 1, "",
        "Receiver mode">>,
      <<"CFG-TMODE-POS_TYPE", 537067522, "E1", 1, "",
        "Determines whether the ARP position is given in ECEF or LAT/LON/HEIGHT?">>,
      <<"CFG-TMODE-ECEF_X", 1073938435, "I4", 1, "cm",
        "ECEF X coordinate of the ARP position.">>,
      <<"CFG-TMODE-ECEF_Y", 1073938436, "I4", 1, "cm",
        "ECEF Y coordinate of the ARP position.">>,
      <<"CFG-TMODE-ECEF_Z", 1073938437, "I4", 1, "cm",
        "ECEF Z coordinate of the ARP position.">>,
      <<"CFG-TMODE-ECEF_X_HP", 537067526, "I1", "0.1", "mm",
        "High-precision ECEF X coordinate of the ARP position.">>,
      <<"CFG-TMODE-ECEF_Y_HP", 537067527, "I1", "0.1", "mm",
        "High-precision ECEF Y coordinate of the ARP position.">>,
      <<"CFG-TMODE-ECEF_Z_HP", 537067528, "I1", "0.1", "mm",
        "High-precision ECEF Z coordinate of the ARP position.">>,
      <<"CFG-TMODE-LAT", 1073938441, "I4", "1e-07", "deg",
        "Latitude of the ARP position.">>,
      <<"CFG-TMODE-LON", 1073938442, "I4", "1e-07", "deg",
        "Longitude of the ARP position.">>,
      <<"CFG-TMODE-HEIGHT", 1073938443, "I4", 1, "cm",
        "Height of the ARP position.">>,
      <<"CFG-TMODE-LAT_HP", 537067532, "I1", "1e-09", "deg",
        "High-precision latitude of the ARP position">>,
      <<"CFG-TMODE-LON_HP", 537067533, "I1", "1e-09", "deg",
        "High-precision longitude of the ARP position.">>,
      <<"CFG-TMODE-HEIGHT_HP", 537067534, "I1", "0.1", "mm",
        "High-precision height of the ARP position.">>,
      <<"CFG-TMODE-FIXED_POS_ACC", 1073938447, "U4", "0.1", "mm",
        "Fixed position 3D accuracy">>,
      <<"CFG-TMODE-SVIN_MIN_DUR", 1073938448, "U4", 1, "s",
        "Survey-in minimum duration">>,
      <<"CFG-TMODE-SVIN_ACC_LIMIT", 1073938449, "U4", "0.1", "mm",
        "Survey-in position accuracy limit">>,
      <<"CFG-TP", 805699583, "", 0, "",
        "get all CFG-TP">>,
      <<"CFG-TP-ANT_CABLEDELAY", 805634049, "I2", "1e-09", "s",
        "Antenna cable delay">>,
      <<"CFG-TP-PERIOD_TP1", 1074069506, "U4", "1e-06", "s",
        "Time pulse period (TP1)">>,
      <<"CFG-TP-PERIOD_LOCK_TP1", 1074069507, "U4", "1e-06", "s",
        "Time pulse period when locked to GNSS time (TP1)">>,
      <<"CFG-TP-LEN_TP1", 1074069508, "U4", "1e-06", "s",
        "Time pulse length (TP1)">>,
      <<"CFG-TP-LEN_LOCK_TP1", 1074069509, "U4", "1e-06", "s",
        "Time pulse length when locked to GNSS time (TP1)">>,
      <<"CFG-TP-USER_DELAY_TP1", 1074069510, "I4", "1e-09", "s",
        "User configurable time pulse delay (TP1)">>,
      <<"CFG-TP-TP1_ENA", 268763143, "L", 1, "",
        "Enable the first timepulse">>,
      <<"CFG-TP-SYNC_GNSS_TP1", 268763144, "L", 1, "",
        "Sync time pulse to GNSS time or local clock (TP1)">>,
      <<"CFG-TP-USE_LOCKED_TP1", 268763145, "L", 1, "",
        "Use locked parameters when possible (TP1)">>,
      <<"CFG-TP-ALIGN_TO_TOW_TP1", 268763146, "L", 1, "",
        "Align time pulse to top of second (TP1)">>,
      <<"CFG-TP-POL_TP1", 268763147, "L", 1, "",
        "Set time pulse polarity (TP1)">>,
      <<"CFG-TP-TIMEGRID_TP1", 537198604, "E1", 1, "",
        "Time grid to use (TP1)">>,
      <<"CFG-TP-PERIOD_TP2", 1074069517, "U4", "1e-06", "s",
        "Time pulse period (TP2)">>,
      <<"CFG-TP-PERIOD_LOCK_TP2", 1074069518, "U4", "1e-06", "s",
        "Time pulse period when locked to GNSS time (TP2)">>,
      <<"CFG-TP-LEN_TP2", 1074069519, "U4", "1e-06", "s",
        "Time pulse length (TP2)">>,
      <<"CFG-TP-LEN_LOCK_TP2", 1074069520, "U4", "1e-06", "s",
        "Time pulse length when locked to GNSS time (TP2)">>,
      <<"CFG-TP-USER_DELAY_TP2", 1074069521, "I4", "1e-09", "s",
        "User configurable time pulse delay (TP2)">>,
      <<"CFG-TP-TP2_ENA", 268763154, "L", 1, "",
        "Enable the second timepulse">>,
      <<"CFG-TP-SYNC_GNSS_TP2", 268763155, "L", 1, "",
        "Sync time pulse to GNSS time or local clock (TP2)">>,
      <<"CFG-TP-USE_LOCKED_TP2", 268763156, "L", 1, "",
        "Use locked parameters when possible (TP2)">>,
      <<"CFG-TP-ALIGN_TO_TOW_TP2", 268763157, "L", 1, "",
        "Align time pulse to top of second (TP2)">>,
      <<"CFG-TP-POL_TP2", 268763158, "L", 1, "",
        "Set time pulse polarity (TP2)">>,
      <<"CFG-TP-TIMEGRID_TP2", 537198615, "E1", 1, "",
        "Time grid to use (TP2)">>,
      <<"CFG-TP-PULSE_DEF", 537198627, "E1", 1, "",
        "Determines whether the time pulse is interpreted as frequency or period?">>,
      <<"CFG-TP-FREQ_TP1", 1074069540, "U4", 1, "Hz",
        "Time pulse frequency (TP1)">>,
      <<"CFG-TP-FREQ_LOCK_TP1", 1074069541, "U4", 1, "Hz",
        "Time pulse frequency when locked to GNSS time (TP1)">>,
      <<"CFG-TP-FREQ_TP2", 1074069542, "U4", 1, "Hz",
        "Time pulse frequency (TP2)">>,
      <<"CFG-TP-FREQ_LOCK_TP2", 1074069543, "U4", 1, "Hz",
        "Time pulse frequency when locked to GNSS time (TP2)">>,
      <<"CFG-TP-DUTY_TP1", 1342505002, "R8", 1, "%",
        "Time pulse duty cycle (TP1)">>,
      <<"CFG-TP-DUTY_LOCK_TP1", 1342505003, "R8", 1, "%",
        "Time pulse duty cycle when locked to GNSS time (TP1)">>,
      <<"CFG-TP-DUTY_TP2", 1342505004, "R8", 1, "%",
        "Time pulse duty cycle (TP2)">>,
      <<"CFG-TP-DUTY_LOCK_TP2", 1342505005, "R8", 1, "%",
        "Time pulse duty cycle when locked to GNSS time (TP2)">>,
      <<"CFG-TP-PULSE_LENGTH_DEF", 537198640, "E1", 1, "",
        "Time pulse length is length[us] or pulse ratio[%]">>,
      <<"CFG-TP-DRSTR_TP1", 537198645, "E1", 1, "",
        "Drive strength TP1">>,
      <<"CFG-TP-DRSTR_TP2", 537198646, "E1", 1, "",
        "Drive strength TP2">>,
      <<"CFG-TP-MSG_ALWAYS", 268763191, "L", 1, "",
        "TP message behavior">>,
      <<"CFG-TXREADY", 279117823, "", 0, "",
        "get all CFG-TXREADY">>,
      <<"CFG-TXREADY-ENABLED", 279052289, "L", 1, "",
        "Flag to indicate if tx ready pin mechanism should be enabled">>,
      <<"CFG-TXREADY-POLARITY", 279052290, "L", 1, "",
        "Polarity of the tx ready pin:false:high-active, true:low-active">>,
      <<"CFG-TXREADY-PIN", 547487747, "U1", 1, "",
        "Pin number to use for the tx ready functionality">>,
      <<"CFG-TXREADY-THRESHOLD", 815923204, "U2", 1, "",
        "Amount of data ready on interface before triggering tx ready pin">>,
      <<"CFG-TXREADY-INTERFACE", 547487749, "E1", 1, "",
        "Interface where the tx ready feature should be linked to">>,
      <<"CFG-UART1", 1079181311, "", 0, "",
        "get all CFG-UART1">>,
      <<"CFG-UART1-BAUDRATE", 1079115777, "U4", 1, "",
        "The baud rate that should be configured on the UART1">>,
      <<"CFG-UART1-STOPBITS", 542244866, "E1", 1, "",
        "Number of stopbits that should be used on UART1">>,
      <<"CFG-UART1-DATABITS", 542244867, "E1", 1, "",
        "Number of databits that should be used on UART1">>,
      <<"CFG-UART1-PARITY", 542244868, "E1", 1, "",
        "Parity mode that should be used on UART1">>,
      <<"CFG-UART1-ENABLED", 273809413, "L", 1, "",
        "Flag to indicate if the UART1 should be enabled">>,
      <<"CFG-UART1INPROT", 276037631, "", 0, "",
        "get all CFG-UART1INPROT">>,
      <<"CFG-UART1INPROT-UBX", 275972097, "L", 1, "",
        "Flag to indicate if UBX should be an input protocol on UART1">>,
      <<"CFG-UART1INPROT-NMEA", 275972098, "L", 1, "",
        "Flag to indicate if NMEA should be an input protocol on UART1">>,
      <<"CFG-UART1INPROT-RTCM2X", 275972099, "L", 1, "",
        "Flag to indicate if RTCM2X should be an input protocol on UART1">>,
      <<"CFG-UART1INPROT-RTCM3X", 275972100, "L", 1, "",
        "Flag to indicate if RTCM3X should be an input protocol on UART1">>,
      <<"CFG-UART1INPROT-SPARTN", 275972101, "L", 1, "",
        "Flag to indicate if SPARTN should be an input protocol on UART1">>,
      <<"CFG-UART1OUTPROT", 276103167, "", 0, "",
        "get all CFG-UART1OUTPROT">>,
      <<"CFG-UART1OUTPROT-UBX", 276037633, "L", 1, "",
        "Flag to indicate if UBX should be an output protocol on UART1">>,
      <<"CFG-UART1OUTPROT-NMEA", 276037634, "L", 1, "",
        "Flag to indicate if NMEA should be an output protocol on UART1">>,
      <<"CFG-UART1OUTPROT-RTCM3X", 276037636, "L", 1, "",
        "Flag to indicate if RTCM3X should be an output protocol on UART1">>,
      <<"CFG-UART2", 1079246847, "", 0, "",
        "get all CFG-UART2">>,
      <<"CFG-UART2-BAUDRATE", 1079181313, "U4", 1, "",
        "The baud rate that should be configured on the UART2">>,
      <<"CFG-UART2-STOPBITS", 542310402, "E1", 1, "",
        "Number of stopbits that should be used on UART2">>,
      <<"CFG-UART2-DATABITS", 542310403, "E1", 1, "",
        "Number of databits that should be used on UART2">>,
      <<"CFG-UART2-PARITY", 542310404, "E1", 1, "",
        "Parity mode that should be used on UART2">>,
      <<"CFG-UART2-ENABLED", 273874949, "L", 1, "",
        "Flag to indicate if the UART2 should be enabled">>,
      <<"CFG-UART2-REMAP", 273874950, "L", 1, "",
        "UART2 Remapping">>,
      <<"CFG-UART2INPROT", 276168703, "", 0, "",
        "get all CFG-UART2INPROT">>,
      <<"CFG-UART2INPROT-UBX", 276103169, "L", 1, "",
        "Flag to indicate if UBX should be an input protocol on UART2">>,
      <<"CFG-UART2INPROT-NMEA", 276103170, "L", 1, "",
        "Flag to indicate if NMEA should be an input protocol on UART2">>,
      <<"CFG-UART2INPROT-RTCM2X", 276103171, "L", 1, "",
        "Flag to indicate if RTCM2X should be an input protocol on UART2">>,
      <<"CFG-UART2INPROT-RTCM3X", 276103172, "L", 1, "",
        "Flag to indicate if RTCM3X should be an input protocol on UART2">>,
      <<"CFG-UART2INPROT-SPARTN", 276103173, "L", 1, "",
        "Flag to indicate if SPARTN should be an input protocol on UART2">>,
      <<"CFG-UART2OUTPROT", 276234239, "", 0, "",
        "get all CFG-UART2OUTPROT">>,
      <<"CFG-UART2OUTPROT-UBX", 276168705, "L", 1, "",
        "Flag to indicate if UBX should be an output protocol on UART2">>,
      <<"CFG-UART2OUTPROT-NMEA", 276168706, "L", 1, "",
        "Flag to indicate if NMEA should be an output protocol on UART2">>,
      <<"CFG-UART2OUTPROT-RTCM3X", 276168708, "L", 1, "",
        "Flag to indicate if RTCM3X should be an output protocol on UART2">>,
      <<"CFG-UNITTEST", 285147135, "", 0, "",
        "get all CFG-UNITTEST">>,
      <<"CFG-UNITTEST-FLAG1", 285085457, "L", 1, "",
        "Single bit flag">>,
      <<"CFG-UNITTEST-UNSIGNED1", 553520930, "U1", 1, "",
        "Unsigned one byte value">>,
      <<"CFG-UNITTEST-UNSIGNED2", 821956387, "U2", 1, "",
        "Unsigned two byte value">>,
      <<"CFG-UNITTEST-UNSIGNED4", 1090391844, "U4", 1, "",
        "Unsigned four byte value">>,
      <<"CFG-UNITTEST-UNSIGNED8", 1358827301, "U8", 1, "",
        "Unsigned eight byte value">>,
      <<"CFG-UNITTEST-ENUM1", 553520962, "E1", 1, "",
        "One byte enumeration">>,
      <<"CFG-UNITTEST-ENUM2", 821956419, "E2", 1, "",
        "Two bytes enumeration">>,
      <<"CFG-UNITTEST-ENUM4", 1090391876, "E4", 1, "",
        "Four bytes enumeration">>,
      <<"CFG-UNITTEST-SIGNED1", 553520946, "U1", 1, "",
        "Signed one byte value">>,
      <<"CFG-UNITTEST-SIGNED2", 821956403, "I2", 1, "",
        "Signed two byte value">>,
      <<"CFG-UNITTEST-SIGNED4", 1090391860, "I4", 1, "",
        "Signed four byte value">>,
      <<"CFG-UNITTEST-SIGNED8", 1358827317, "I8", 1, "",
        "Signed eight byte value">>,
      <<"CFG-UNITTEST-FLOAT4", 1090391862, "R4", 1, "",
        "Four bytes float">>,
      <<"CFG-UNITTEST-FLOAT8", 1358827319, "R8", 1, "",
        "Eight bytes float">>,
      <<"CFG-UNITTEST-BITFIELD1", 553520978, "X1", 1, "",
        "One-byte bit field">>,
      <<"CFG-UNITTEST-BITFIELD2", 821956435, "X2", 1, "",
        "Two-byte bit field">>,
      <<"CFG-UNITTEST-BITFIELD4", 1090391892, "X4", 1, "",
        "Four-byte bit field">>,
      <<"CFG-UNITTEST-BITFIELD8", 1358827349, "X8", 1, "",
        "Eight-byte bit field">>,
      <<"CFG-UNITTEST-U1_PUB", 553520993, "U1", 1, "",
        "Public config item">>,
      <<"CFG-UNITTEST-E1_PUB", 553520997, "E1", 1, "",
        "Public enumeration">>,
      <<"CFG-UNITTEST-X1_PUB", 553521001, "X1", 1, "",
        "Public bit field">>,
      <<"CFG-UNITTEST-R4_SCALE1", 1090391917, "R4", 1, "",
        "Four bytes float with scale 2^-31">>,
      <<"CFG-UNITTEST-R8_SCALE1", 1358827374, "R8", 1, "",
        "Eight bytes float with scale 2^-31">>,
      <<"CFG-UNITTEST-R4_SCALE2", 1090391919, "R4", 1, "",
        "Four bytes float with scale 0.5">>,
      <<"CFG-UNITTEST-R8_SCALE2", 1358827376, "R8", 1, "",
        "Eight bytes float with scale 0.5">>,
      <<"CFG-UNITTEST-R4_SCALE3", 1090391921, "R4", 1, "",
        "Four bytes float with scale 1/3">>,
      <<"CFG-UNITTEST-R8_SCALE3", 1358827378, "R8", 1, "",
        "Eight bytes float with scale 1/3">>,
      <<"CFG-USB", 275120127, "", 0, "",
        "get all CFG-USB">>,
      <<"CFG-USB-ENABLED", 275054593, "L", 1, "",
        "Flag to indicate if the USB interface should be enabled">>,
      <<"CFG-USB-SELFPOW", 275054594, "L", 1, "",
        "Self-Powered device">>,
      <<"CFG-USB-VENDOR_ID", 811925514, "U2", 1, "",
        "Vendor ID">>,
      <<"CFG-USB-PRODUCT_ID", 811925515, "U2", 1, "",
        "Product ID">>,
      <<"CFG-USB-POWER", 811925516, "U2", 1, "mA",
        "Power consumption">>,
      <<"CFG-USB-VENDOR_STR0", 1348796429, "X8", 1, "",
        "Vendor string characters 0-7">>,
      <<"CFG-USB-VENDOR_STR1", 1348796430, "X8", 1, "",
        "Vendor string characters 8-15">>,
      <<"CFG-USB-VENDOR_STR2", 1348796431, "X8", 1, "",
        "Vendor string characters 16-23">>,
      <<"CFG-USB-VENDOR_STR3", 1348796432, "X8", 1, "",
        "Vendor string characters 24-31">>,
      <<"CFG-USB-PRODUCT_STR0", 1348796433, "X8", 1, "",
        "Product string characters 0-7">>,
      <<"CFG-USB-PRODUCT_STR1", 1348796434, "X8", 1, "",
        "Product string characters 8-15">>,
      <<"CFG-USB-PRODUCT_STR2", 1348796435, "X8", 1, "",
        "Product string characters 16-23">>,
      <<"CFG-USB-PRODUCT_STR3", 1348796436, "X8", 1, "",
        "Product string characters 24-31">>,
      <<"CFG-USB-SERIAL_NO_STR0", 1348796437, "X8", 1, "",
        "Serial number string characters 0-7">>,
      <<"CFG-USB-SERIAL_NO_STR1", 1348796438, "X8", 1, "",
        "Serial number string characters 8-15">>,
      <<"CFG-USB-SERIAL_NO_STR2", 1348796439, "X8", 1, "",
        "Serial number string characters 16-23">>,
      <<"CFG-USB-SERIAL_NO_STR3", 1348796440, "X8", 1, "",
        "Serial number string characters 24-31">>,
      <<"CFG-USBINPROT", 276299775, "", 0, "",
        "get all CFG-USBINPROT">>,
      <<"CFG-USBINPROT-UBX", 276234241, "L", 1, "",
        "Flag to indicate if UBX should be an input protocol on USB">>,
      <<"CFG-USBINPROT-NMEA", 276234242, "L", 1, "",
        "Flag to indicate if NMEA should be an input protocol on USB">>,
      <<"CFG-USBINPROT-RTCM2X", 276234243, "L", 1, "",
        "Flag to indicate if RTCM2X should be an input protocol on USB">>,
      <<"CFG-USBINPROT-RTCM3X", 276234244, "L", 1, "",
        "Flag to indicate if RTCM3X should be an input protocol on USB">>,
      <<"CFG-USBINPROT-SPARTN", 276234245, "L", 1, "",
        "Flag to indicate if SPARTN should be an input protocol on USB">>,
      <<"CFG-USBOUTPROT", 276365311, "", 0, "",
        "get all CFG-USBOUTPROT">>,
      <<"CFG-USBOUTPROT-UBX", 276299777, "L", 1, "",
        "Flag to indicate if UBX should be an output protocol on USB">>,
      <<"CFG-USBOUTPROT-NMEA", 276299778, "L", 1, "",
        "Flag to indicate if NMEA should be an output protocol on USB">>,
      <<"CFG-USBOUTPROT-RTCM3X", 276299780, "L", 1, "",
        "Flag to indicate if RTCM3X should be an output protocol on USB">>,
      <<"CFG-4", 268763135, "", 0, "",
        "get all CFG-50">>,
      <<"CFG-4-1", 268697601, "L", 1, "",
        "Unknown">>,
      <<"CFG-4-2", 268697602, "L", 1, "",
        "Unknown">>,
      <<"CFG-4-3", 268697603, "L", 1, "",
        "Unknown">>,
      <<"CFG-4-4", 268697604, "L", 1, "",
        "Unknown">>,
      <<"CFG-4-5", 268697605, "L", 1, "",
        "Unknown">>,
      <<"CFG-50", 271777791, "", 0, "",
        "get all CFG-50">>,
      <<"CFG-50-1", 271712257, "L", 1, "",
        "Ignore GPS L5 heatth status">>,
      <<"CFG-50-2", 271712258, "L", 1, "",
        "Unknown">>,
      <<"CFG-50-3", 271712259, "L", 1, "",
        "Unknown">>,
      <<"CFG-50-4", 271712260, "L", 1, "",
        "Unknown">>
    >>

\* cfg_by_key_group
cfg_by_key_group ==
    (3 :> "TMODE") @@
    (5 :> "TP") @@
    (6 :> "SFIMU") @@
    (7 :> "SFODO") @@
    (8 :> "SFCORE") @@
    (9 :> "RTCM") @@
    (12 :> "CFB") @@
    (17 :> "NAVSPG") @@
    (20 :> "NAVHPG") @@
    (23 :> "NAV2") @@
    (24 :> "NAVMASK") @@
    (33 :> "RATE") @@
    (34 :> "ODO") @@
    (35 :> "ANA") @@
    (36 :> "GEOFENCE") @@
    (37 :> "MOT") @@
    (38 :> "BATCH") @@
    (49 :> "SIGNAL") @@
    (52 :> "BDS") @@
    (53 :> "GAL") @@
    (54 :> "SBAS") @@
    (55 :> "QZSS") @@
    (65 :> "ITFM") @@
    (81 :> "I2C") @@
    (82 :> "UART1") @@
    (83 :> "UART2") @@
    (84 :> "GAL") @@
    (100 :> "SPI") @@
    (101 :> "USB") @@
    (113 :> "I2CINPROT") @@
    (114 :> "I2COUTPROT") @@
    (115 :> "UART1INPROT") @@
    (116 :> "UART1OUTPROT") @@
    (117 :> "UART2INPROT") @@
    (118 :> "UART2OUTPROT") @@
    (119 :> "USBOUTPROT") @@
    (120 :> "USBOUTPROT") @@
    (121 :> "SPIINPROT") @@
    (122 :> "SPIOUTPROT") @@
    (145 :> "MSGOUT") @@
    (146 :> "INFMSG") @@
    (147 :> "NMEA") @@
    (162 :> "TXREADY") @@
    (163 :> "HW") @@
    (167 :> "SPARTN") @@
    (177 :> "PMP") @@
    (199 :> "RINV") @@
    (208 :> "PM") @@
    (222 :> "LOGFILTER") @@
    (246 :> "SEC") @@
    (254 :> "UNITTEST")

\* cfg_by_key_kmap
cfg_by_key_kmap ==
    (0 :> "Z0") @@ (1 :> "L") @@ (2 :> "U1") @@ (3 :> "U2") @@ (4 :> "U4") @@ (5 :> "U8") @@ (6 :> "Z6") @@ (7 :> "Z7")

----------------------------------------------------------------------------
\* The configuration items: item_to_type, cfg_by_key, cfg_by_name.

\* Python's None
None == <<>>

\* index_s(index, descs): the entry of descs, or "Unk"
index_s(index, descs) == IF index \in DOMAIN descs THEN descs[index] ELSE "Unk"

\* cfg_types of item_to_type: (size, pack format, u/i/f) of the known types
cfg_types ==
    ("E1" :> <<1, "<B", "u">>) @@ ("E2" :> <<2, "<H", "u">>) @@
    ("E4" :> <<4, "<L", "u">>) @@ ("I1" :> <<1, "<b", "i">>) @@
    ("I2" :> <<2, "<h", "i">>) @@ ("I4" :> <<4, "<l", "i">>) @@
    ("I8" :> <<8, "<q", "i">>) @@ ("L" :> <<1, "<B", "u">>) @@
    ("R4" :> <<4, "<f", "f">>) @@ ("R8" :> <<8, "<d", "f">>) @@
    ("U1" :> <<1, "<B", "u">>) @@ ("U2" :> <<2, "<H", "u">>) @@
    ("U4" :> <<4, "<L", "u">>) @@ ("U8" :> <<8, "<Q", "u">>) @@
    ("X1" :> <<1, "<B", "u">>) @@ ("X2" :> <<2, "<H", "u">>) @@
    ("X4" :> <<4, "<L", "u">>) @@ ("X8" :> <<8, "<Q", "u">>)

\* key_map of item_to_type: the guess from the size bits of an unknown key
key_map ==
    (0 :> <<1, "<B", "u">>) @@ (1 :> <<1, "<B", "u">>) @@
    (2 :> <<1, "<B", "u">>) @@ (3 :> <<2, "<H", "u">>) @@
    (4 :> <<4, "<L", "u">>) @@ (5 :> <<8, "<B", "u">>) @@
    (6 :> <<1, "<B", "u">>) @@ (7 :> <<1, "<B", "u">>)

\* (key >> 28) & 0x07
key_size(key) == (key \div 268435456) % 8

\* item_to_type(item): (size, pack format, u/i/f)
item_to_type(item) ==
    IF item[3] \in DOMAIN cfg_types
    THEN cfg_types[item[3]]
    ELSE key_map[key_size(item[2])]

\* the places of the table whose field f is v
Places(f, v) == {i \in 1..Len(cfgs) : cfgs[i][f] = v}

\* 'for item in self.cfgs: if item[f] == v: return item', else the rest
FirstOf(S, rest) ==
    IF S = {} THEN rest ELSE cfgs[CHOOSE i \in S : \A j \in S : i <= j]

\* group_name of cfg_by_key: the label of the group, or the group in decimal
group_name(group) ==
    IF "Unk" = index_s(group, cfg_by_key_group)
    THEN ToString(group)
    ELSE index_s(group, cfg_by_key_group)

\* the fake item cfg_by_key builds for a key that is not in the table
fake_item(key) ==
    <<"CFG-" \o group_name((key \div 65536) % 256) \o "-"
          \o ToString(key % 4096),
      key, cfg_by_key_kmap[key_size(key)], 1, "Unk", "Unknown">>

\* cfg_by_key with the size taken from bits 24..26
cfg_by_key_size24(key) ==
    FirstOf(Places(2, key),
            <<"CFG-" \o group_name((key \div 65536) % 256) \o "-"
                  \o ToString(key % 4096),
              key, cfg_by_key_kmap[(key \div 16777216) % 8], 1, "Unk",
              "Unknown">>)

\* cfg_by_key(key)
cfg_by_key(key) == FirstOf(Places(2, key), fake_item(key))

\* cfg_by_name(name)
cfg_by_name(name) == FirstOf(Places(1, name), None)
----------------------------------------------------------------------------
\* Per-message decoders.  Each returns its report text, the protocol
\* version it leaves in self.protver, and whether it raised.

DecRes(s, pv, raised) == [s |-> s, protver |-> pv, raised |-> raised]

\* class_id_s: 'CLS-ID (xCC:xII)', numeric where the catalog has no name
HexLabel(m_class, m_id) == "x" \o Hex2(m_class) \o ":x" \o Hex2(m_id)

class_id_s(m_class, m_id) ==
    LET cs == IF m_class \in DOMAIN classes /\ "str" \in DOMAIN classes[m_class]
              THEN classes[m_class].str \o "-"
              ELSE ToString(m_class) \o "-"
        is == IF /\ m_class \in DOMAIN classes
                 /\ "ids" \in DOMAIN classes[m_class]
                 /\ m_id \in DOMAIN classes[m_class].ids
                 /\ "str" \in DOMAIN classes[m_class].ids[m_id]
              THEN classes[m_class].ids[m_id].str
              ELSE ToString(m_id)
    IN  <<cs, is, " (", HexLabel(m_class, m_id), ")">>

\* struct.unpack_from(fmt, buf, off) raises struct.error unless the buffer
\* holds size bytes from offset off.
CanUnpack(buf, off, size) == off + size <= Len(buf)

ack_ack(buf, pv, verb) ==
    DecRes(<<" ACK to ">> \o class_id_s(buf[1], buf[2]), pv, FALSE)

ack_nak(buf, pv, verb) ==
    DecRes(<<" NAK to ">> \o class_id_s(buf[1], buf[2]), pv, FALSE)

aid_req(buf, pv, verb) ==
    DecRes(<<"  poll (AID-DATA) for all GPS Aiding Data">>, pv, FALSE)

aid_data(buf, pv, verb) ==
    DecRes(<<"  Poll all GPS Initial Aiding Data">>, pv, FALSE)

inf_error(buf, pv, verb) == DecRes(<<" Error: ">>, pv, FALSE)

inf_warning(buf, pv, verb) == DecRes(<<" Warning: ">>, pv, FALSE)

inf_notice(buf, pv, verb) == DecRes(<<" Notice: ">>, pv, FALSE)

inf_test(buf, pv, verb) == DecRes(<<" Test: ">>, pv, FALSE)

inf_debug(buf, pv, verb) == DecRes(<<" Debug: ">>, pv, FALSE)

log_erase(buf, pv, verb) == DecRes(<<"  Erase Logged Data">>, pv, FALSE)

log_string(buf, pv, verb) ==
    IF 256 < Len(buf)
    THEN DecRes(<<"  Bad Length ", ToString(Len(buf))>>, pv, FALSE)
    ELSE DecRes(<<"  bytes ">>, pv, FALSE)

nav_resetodo(buf, pv, verb) ==
    IF Len(buf) = 0
    THEN DecRes(<<" reset request">>, pv, FALSE)
    ELSE DecRes(<<" unexpected data">>, pv, FALSE)

upd_sos(buf, pv, verb) ==
    LET m_len == Len(buf)
        cmd == IF VERB_DECODE <= verb THEN <<"    cmd">> ELSE <<>>
    IN  IF m_len = 0
        THEN DecRes(<<"  Poll Backup File Restore Status">>, pv, FALSE)
        ELSE IF 4 > m_len
        THEN DecRes(<<"  Bad Length ", ToString(m_len)>>, pv, FALSE)
        ELSE IF buf[1] = 0 \/ buf[1] = 1
        THEN DecRes(<<"  command">> \o cmd, pv, FALSE)
        ELSE IF 8 > m_len
        THEN DecRes(<<"  command", "  Bad Length ", ToString(m_len)>> \o cmd,
                    pv, FALSE)
        ELSE IF buf[1] = 2 \/ buf[1] = 3
        THEN DecRes(<<"  command", "  response">> \o cmd, pv, FALSE)
        ELSE DecRes(<<"  command">> \o cmd, pv, FALSE)

\* cfg_dosc: at least protver 16, then version, numOsc and length checks
cfg_dosc(buf, pv, verb) ==
    LET pv1 == IF 1600 > pv THEN 1600 ELSE pv
        m_len == Len(buf)
    IN  IF buf[1] # 0
        THEN DecRes(<<"  Unknown version">>, pv1, FALSE)
        ELSE IF 2 > buf[2]
        THEN DecRes(<<"  Bad numOsc">>, pv1, FALSE)
        ELSE IF 4 # m_len - buf[2] * 32
        THEN DecRes(<<"  Bad length">>, pv1, FALSE)
        ELSE DecRes(<<"  version numOsc">> \o [i \in 1..buf[2] |-> "   osc"],
                    pv1, FALSE)

\* cfg_esrc: at least protver 16, then version, numSources and length checks
cfg_esrc(buf, pv, verb) ==
    LET pv1 == IF 1600 > pv THEN 1600 ELSE pv
        m_len == Len(buf)
    IN  IF buf[1] # 0
        THEN DecRes(<<"  Unknown version">>, pv1, FALSE)
        ELSE IF 2 > buf[2]
        THEN DecRes(<<"  Bad numSources">>, pv1, FALSE)
        ELSE IF 4 # m_len - buf[2] * 36
        THEN DecRes(<<"  Bad ilength">>, pv1, FALSE)
        ELSE DecRes(<<"  version numSources">>
                        \o [i \in 1..buf[2] |-> "    source"],
                    pv1, FALSE)

\* cfg_valget: version 0 is a poll and leaves protver; any other version is
\* the answer and means at least protver 27.  The text of the items of an
\* answer (cfg_by_key, item_to_type) is one piece per item here.
\* cfg_valget without its 'if 27 > self.protver' guard
cfg_valget_unguarded(buf, pv, verb) ==
    IF buf[1] = 0
    THEN IF (Len(buf) - 4) % 4 # 0
         THEN DecRes(<<>>, pv, TRUE)
         ELSE DecRes(<<" version layer position", "  layers">>, pv, FALSE)
    ELSE DecRes(<<" version layer position", "  layers">>, 2700, FALSE)

cfg_valget(buf, pv, verb) ==
    LET m_len == Len(buf) - 4
        head == <<" version layer position", "  layers">>
    IN  IF buf[1] = 0
        THEN \* the poll: one '<L' key per 4 bytes, as long as bytes remain
             IF m_len % 4 # 0
             THEN DecRes(<<>>, pv, TRUE)
             ELSE DecRes(head \o [i \in 1..(m_len \div 4) |-> "    item"],
                         pv, FALSE)
        ELSE LET pv1 == IF 2700 > pv THEN 2700 ELSE pv
                 count == IF VERB_DECODE <= verb THEN <<"   count">> ELSE <<>>
             IN  IF 4 < m_len
                 THEN DecRes(head \o <<"    items">> \o count, pv1, FALSE)
                 ELSE DecRes(head \o count
                               \o (IF 0 < m_len
                                   THEN <<"WARNING: extra bytes!">>
                                   ELSE <<>>),
                             pv1, FALSE)

\* struct.calcsize of the pack formats of item_to_type
calcsize(frmat) ==
    CASE frmat \in {"<B", "<b"} -> 1
      [] frmat \in {"<H", "<h"} -> 2
      [] frmat \in {"<L", "<l", "<f"} -> 4
      [] frmat \in {"<Q", "<q", "<d"} -> 8

\* struct.unpack_from('<L', buf, i)[0], i counted from 0
unpack_L(buf, i) ==
    buf[i + 1] + 256 * buf[i + 2] + 65536 * buf[i + 3] + 16777216 * buf[i + 4]

\* the loop of cfg_valset: a key, the item it names, then as many bytes as
\* the item's type prescribes, read in the item's format; m_len is what is
\* left of the payload, i the offset
RECURSIVE cfg_valset_items(_, _, _, _, _)
cfg_valset_item(buf, i, m_len, s, pv, item) ==
    IF CanUnpack(buf, i, calcsize(item_to_type(item)[2]))
    THEN cfg_valset_items(buf, i + item_to_type(item)[1],
                          m_len - item_to_type(item)[1],
                          s \o <<"    item ", item[1], " val">>, pv)
    ELSE DecRes(<<>>, pv, TRUE)

cfg_valset_items(buf, i, m_len, s, pv) ==
    IF 4 < m_len
    THEN cfg_valset_item(buf, i + 4, m_len - 4, s, pv,
                         cfg_by_key(unpack_L(buf, i)))
    ELSE DecRes(s \o (IF 0 < m_len THEN <<"WARNING: extra bytes!">> ELSE <<>>),
                pv, FALSE)

\* cfg_valset: four bytes of version, layer, transaction and reserved, then
\* the items
cfg_valset(buf, pv, verb) ==
    cfg_valset_items(buf, 4, Len(buf) - 4,
                     <<" version layer transaction reserved",
                       "  layers transaction">>, pv)

\* esf_raw: at least protver 15, then whole 8-byte blocks after 4 bytes
esf_raw(buf, pv, verb) ==
    LET pv1 == IF 1500 > pv THEN 1500 ELSE pv
        m_len == Len(buf)
        blocks == (m_len - 4) \div 8
    IN  IF blocks * 8 + 4 # m_len
        THEN DecRes(<<"ERROR: invalid m_len">>, pv1, FALSE)
        ELSE DecRes(<<" reserved1 blocks">>
                        \o [i \in 1..blocks |-> "   data_type"],
                    pv1, FALSE)

\* mon_rf: at least protver 27; the guard 'if 0 == [1]' never holds, so
\* nBlocks = 0 divides by zero.
mon_rf(buf, pv, verb) ==
    LET pv1 == IF 2700 > pv THEN 2700 ELSE pv
        m_len == Len(buf)
        nBlocks == buf[2]
    IN  IF nBlocks = 0
        THEN DecRes(<<>>, pv1, TRUE)
        ELSE IF m_len - 4 = 20 * nBlocks \/ m_len - 4 = 24 * nBlocks
        THEN DecRes(<<" version nBlocks">>
                        \o [i \in 1..nBlocks |-> "   block"],
                    pv1, FALSE)
        ELSE DecRes(<<"  Bad length">>, pv1, FALSE)

\* mon_span: at least protver 27, then one 272-byte block per numRfBlocks,
\* unpacked without a length check.
mon_span(buf, pv, verb) ==
    LET pv1 == IF 2700 > pv THEN 2700 ELSE pv
        n == buf[2]
    IN  IF n > 0 /\ ~CanUnpack(buf, 260 + (n - 1) * 272, 16)
        THEN DecRes(<<>>, pv1, TRUE)
        ELSE DecRes(<<"  version numRfBlocks">>
                        \o [i \in 1..n |-> "   span"],
                    pv1, FALSE)


\* sbfr4_svid_page, sbfr5_svid_page: subframe 4 and 5 SV ID to page number
sbfr4_svid_page ==
    (0 :> 0) @@ (57 :> 1) @@ (25 :> 2) @@ (26 :> 3) @@ (27 :> 4) @@
    (28 :> 5) @@ (29 :> 7) @@ (30 :> 8) @@ (31 :> 9) @@ (32 :> 10) @@
    (62 :> 12) @@ (52 :> 13) @@ (53 :> 14) @@ (54 :> 15) @@ (55 :> 17) @@
    (56 :> 18) @@ (58 :> 19) @@ (59 :> 20) @@ (60 :> 22) @@ (61 :> 23) @@
    (63 :> 25)

sbfr5_svid_page == [i \in 0..24 |-> i] @@ (51 :> 25)

\* byte b (0 = least significant) of words[k], a '<L' at offset 8 + 4k
word_byte(buf, k, b) == buf[8 + 4 * k + b + 1]

\* The LNAV-L part of rxm_sfrbx once words[0] and words[1] are read.  words
\* is a tuple of numWords entries; words[k] raises IndexError unless
\* k < numWords.  Subframes 1, 2 and 3, almanac() and the pages 13, 17, 18
\* and 25 of subframe 4 read up to words[9], page 25 of subframe 5 up to
\* words[8].
rxm_sfrbx_lnav(buf, pv, s) ==
    LET numWords == buf[5]
        subframe == word_byte(buf, 1, 1) % 8
        svid == (word_byte(buf, 2, 3) % 16) * 4 + (word_byte(buf, 2, 2) \div 64)
        s1 == s \o <<"  LNAV-L: preamble", "  TOW17 Subframe ",
                     ToString(subframe)>>
    IN  IF subframe \in {1, 2, 3}
        THEN IF numWords < 10 THEN DecRes(<<>>, pv, TRUE)
             ELSE DecRes(s1 \o <<"   subframe data">>, pv, FALSE)
        ELSE IF subframe = 4
        THEN IF numWords < 3 THEN DecRes(<<>>, pv, TRUE)
             ELSE IF svid \notin DOMAIN sbfr4_svid_page
             THEN DecRes(s1 \o <<"   dataid svid (page Unk)",
                                 "   Unknown page ????">>, pv, FALSE)
             ELSE LET page == sbfr4_svid_page[svid]
                      s2 == s1 \o <<"   dataid svid (page ",
                                    ToString(page), ")">>
                  IN  IF 6 = page THEN DecRes(s2 \o <<"    reserved">>, pv, FALSE)
                      ELSE IF (2 <= page /\ page <= 10) \/ page \in {13, 17, 18, 25}
                      THEN IF numWords < 10 THEN DecRes(<<>>, pv, TRUE)
                           ELSE DecRes(s2 \o <<"    page data">>, pv, FALSE)
                      ELSE DecRes(s2 \o <<"    Reserved">>, pv, FALSE)
        ELSE IF subframe = 5
        THEN IF numWords < 3 THEN DecRes(<<>>, pv, TRUE)
             ELSE IF svid \notin DOMAIN sbfr5_svid_page
             THEN DecRes(s1 \o <<"   dataid svid (page Unk)",
                                 "   Unknown page ????">>, pv, FALSE)
             ELSE LET page == sbfr5_svid_page[svid]
                      s2 == s1 \o <<"   dataid svid (page ",
                                    ToString(page), ")">>
                  IN  IF 1 <= page /\ page <= 24
                      THEN IF numWords < 10 THEN DecRes(<<>>, pv, TRUE)
                           ELSE DecRes(s2 \o <<"    page data">>, pv, FALSE)
                      ELSE IF 25 = page
                      THEN IF numWords < 9 THEN DecRes(<<>>, pv, TRUE)
                           ELSE DecRes(s2 \o <<"    SV HEALTH">>, pv, FALSE)
                      ELSE DecRes(s2 \o <<"    Reserved">>, pv, FALSE)
        ELSE DecRes(s1, pv, FALSE)

\* rxm_sfrbx: version 1 or 2 only; on a length other than 8 + 4 * numWords
\* the warning is built from the undefined name 'elan' and raises NameError;
\* then the branch of the constellation indexes words[] unchecked.  The
\* branches of SBAS, Galileo, BeiDou and GLONASS (gnssId 1, 2, 3, 6) call
\* helpers that are not modelled.
rxm_sfrbx(buf, pv, verb) ==
    LET gnssId == buf[1]
        numWords == buf[5]
        elen == 8 + 4 * numWords
        s == <<" gnssId svId sigId freqId numWords ", ToString(numWords),
               "  chn version reserved2">>
             \o (IF VERB_DECODE <= verb THEN <<"  (gnss_sig_id)">> ELSE <<>>)
        s1 == s \o (IF VERB_DECODE <= verb THEN <<"    dwrd">> ELSE <<>>)
    IN  IF buf[7] \notin {1, 2}
        THEN DecRes(s \o <<"    WARNING: unknown version ",
                           ToString(buf[7])>>, pv, FALSE)
        ELSE IF Len(buf) # elen
        THEN DecRes(<<>>, pv, TRUE)
        ELSE CASE gnssId \in {0, 5} ->
                    IF numWords < 1 THEN DecRes(<<>>, pv, TRUE)
                    ELSE IF 139 = word_byte(buf, 0, 3)
                    THEN DecRes(s1 \o <<"  CNAV: preamble 0x8b PRN msgid">>,
                                pv, FALSE)
                    ELSE IF numWords < 2 THEN DecRes(<<>>, pv, TRUE)
                    ELSE rxm_sfrbx_lnav(buf, pv, s1)
               [] gnssId \notin {0, 1, 2, 3, 5, 6} -> DecRes(s1, pv, FALSE)

\* nav_clock: '<LllLL' unpacked from the front of the payload.  The model
\* feeds bytes below 0x80, for which the signed and the unsigned reading
\* agree.
nav_clock(buf, pv, verb) ==
    IF ~CanUnpack(buf, 0, 20)
    THEN DecRes(<<>>, pv, TRUE)
    ELSE DecRes(<<"  iTOW ", ToString(unpack_L(buf, 0)),
                  " clkB ", ToString(unpack_L(buf, 4)),
                  " clkD ", ToString(unpack_L(buf, 8)),
                  " tAcc ", ToString(unpack_L(buf, 12)),
                  " fAcc ", ToString(unpack_L(buf, 16))>>, pv, FALSE)

\* nav2_clock: 'return nav_clock(self, buf)'.  nav_clock is an attribute of
\* the class, not a name of the module, so the call raises NameError.
nav2_clock(buf, pv, verb) == DecRes(<<>>, pv, TRUE)

\* cfg_msg: a rate request (2 bytes), a rate set (3), or the rates of all
\* ports (8)
cfg_msg(buf, pv, verb) ==
    IF Len(buf) = 2
    THEN DecRes(<<"  Rate request ">> \o class_id_s(buf[1], buf[2]), pv, FALSE)
    ELSE IF Len(buf) = 3
    THEN DecRes(<<"  Rate set ">> \o class_id_s(buf[1], buf[2])
                    \o <<" Rate ", ToString(buf[3])>>, pv, FALSE)
    ELSE IF Len(buf) # 8
    THEN DecRes(<<"  Bad Length ", ToString(Len(buf))>>, pv, FALSE)
    ELSE DecRes(<<" ">> \o class_id_s(buf[1], buf[2]) \o <<" Rates">>,
                pv, FALSE)

\* cfg_esfalg: at least protver 15, then '<LLhh'
cfg_esfalg(buf, pv, verb) ==
    LET pv1 == IF 1500 > pv THEN 1500 ELSE pv
    IN  IF ~CanUnpack(buf, 0, 12)
        THEN DecRes(<<>>, pv1, TRUE)
        ELSE DecRes(<<" bitfield aw pitch roll">>
                        \o (IF VERB_DECODE <= verb
                            THEN <<"    bitfield version">> ELSE <<>>),
                    pv1, FALSE)
\* buf[start:].split(b'\0')[0]: the bytes from offset start (0-based) up to
\* the first NUL.
RECURSIVE FirstNul(_, _)
FirstNul(b, i) == IF i > Len(b) \/ b[i] = 0 THEN i ELSE FirstNul(b, i + 1)

CStr(b, start) == SubSeq(b, start + 1, FirstNul(b, start + 1) - 1)

IsDigits(s) == \A i \in 1..Len(s) : s[i] \in 48..57

RECURSIVE DecVal(_)
DecVal(ds) ==
    IF ds = <<>> THEN 0
    ELSE DecVal(SubSeq(ds, 1, Len(ds) - 1)) * 10 + (ds[Len(ds)] - 48)

RECURSIVE FirstDot(_, _)
FirstDot(s, i) == IF i > Len(s) \/ s[i] = 46 THEN i ELSE FirstDot(s, i + 1)

\* "%.2f" % float(text), in hundredths, for a text of decimal digits with at
\* most one '.'; -1 when float() raises ValueError.  Digits after the second
\* decimal round at the third.
FloatHundredths(s) ==
    LET d == FirstDot(s, 1)
        ip == SubSeq(s, 1, d - 1)
        fp == SubSeq(s, d + 1, Len(s))
        f2 == SubSeq(fp \o <<48, 48, 48>>, 1, 3)
    IN  IF ~IsDigits(ip) \/ ~IsDigits(fp) \/ (ip = <<>> /\ fp = <<>>)
        THEN -1
        ELSE DecVal(ip) * 100 + DecVal(SubSeq(f2, 1, 2))
                 + (IF f2[3] >= 53 THEN 1 ELSE 0)

\* "PROTVER"
PROTVER == <<80, 82, 79, 84, 86, 69, 82>>

\* The i-th 30-byte extension of a UBX-MON-VER payload, as text.
mon_ver_ext(buf, i) == CStr(buf, 40 + i * 30)

\* The loop over the extensions: found is <<>> while protver is None, else
\* <<hundredths>>; <<-1>> once float() has raised.
RECURSIVE mon_ver_scan(_, _, _, _)
mon_ver_scan(buf, i, num_ext, found) ==
    IF i >= num_ext \/ found = <<-1>> THEN found
    ELSE LET polystr == mon_ver_ext(buf, i)
         IN  IF SubSeq(polystr, 1, Min(7, Len(polystr))) = PROTVER
             THEN mon_ver_scan(buf, i + 1, num_ext,
                      <<FloatHundredths(SubSeq(polystr, 9, Len(polystr)))>>)
             ELSE mon_ver_scan(buf, i + 1, num_ext, found)

\* mon_ver: when an extension gives a protocol version whose "%.2f" text
\* differs from that of self.protver, warn and take the extension's value.
mon_ver(buf, pv, verb) ==
    LET m_len == Len(buf)
        num_ext == (m_len - 40) \div 30
        found == mon_ver_scan(buf, 0, num_ext, <<>>)
        s == <<"  swVersion", "  hwVersion">>
                 \o [i \in 1..num_ext |-> "  extension"]
    IN  IF found = <<-1>>
        THEN DecRes(<<>>, pv, TRUE)
        ELSE IF found # <<>> /\ found[1] # pv
        THEN DecRes(s \o <<"WARNING:  protVer is, should be">>, found[1], FALSE)
        ELSE DecRes(s, pv, FALSE)

\* The decode routines whose text, exceptions and protver effect are modelled.
Modelled ==
    {"ack_ack", "ack_nak", "aid_req", "aid_data", "inf_error", "inf_warning",
     "inf_notice", "inf_test", "inf_debug", "log_erase", "log_string",
     "nav_resetodo", "upd_sos", "cfg_dosc", "cfg_esrc", "cfg_valget",
     "cfg_valset", "esf_raw", "mon_rf", "mon_span", "mon_ver", "rxm_sfrbx",
     "nav_clock", "nav2_clock", "cfg_msg", "cfg_esfalg"}

\* this_id['dec'](self, m_payload)
CallDec(dec, buf, pv, verb) ==
    CASE dec = "ack_ack" -> ack_ack(buf, pv, verb)
      [] dec = "ack_nak" -> ack_nak(buf, pv, verb)
      [] dec = "aid_req" -> aid_req(buf, pv, verb)
      [] dec = "aid_data" -> aid_data(buf, pv, verb)
      [] dec = "inf_error" -> inf_error(buf, pv, verb)
      [] dec = "inf_warning" -> inf_warning(buf, pv, verb)
      [] dec = "inf_notice" -> inf_notice(buf, pv, verb)
      [] dec = "inf_test" -> inf_test(buf, pv, verb)
      [] dec = "inf_debug" -> inf_debug(buf, pv, verb)
      [] dec = "log_erase" -> log_erase(buf, pv, verb)
      [] dec = "log_string" -> log_string(buf, pv, verb)
      [] dec = "nav_resetodo" -> nav_resetodo(buf, pv, verb)
      [] dec = "upd_sos" -> upd_sos(buf, pv, verb)
      [] dec = "cfg_dosc" -> cfg_dosc(buf, pv, verb)
      [] dec = "cfg_esrc" -> cfg_esrc(buf, pv, verb)
      [] dec = "cfg_valget" -> cfg_valget(buf, pv, verb)
      [] dec = "cfg_valset" -> cfg_valset(buf, pv, verb)
      [] dec = "esf_raw" -> esf_raw(buf, pv, verb)
      [] dec = "mon_rf" -> mon_rf(buf, pv, verb)
      [] dec = "mon_span" -> mon_span(buf, pv, verb)
      [] dec = "mon_ver" -> mon_ver(buf, pv, verb)
      [] dec = "rxm_sfrbx" -> rxm_sfrbx(buf, pv, verb)
      [] dec = "nav_clock" -> nav_clock(buf, pv, verb)
      [] dec = "nav2_clock" -> nav2_clock(buf, pv, verb)
      [] dec = "cfg_msg" -> cfg_msg(buf, pv, verb)
      [] dec = "cfg_esfalg" -> cfg_esfalg(buf, pv, verb)

----------------------------------------------------------------------------
\* checksum and make_pkt

RECURSIVE checksum_loop(_, _, _, _)
checksum_loop(msg, i, ck_a, ck_b) ==
    IF i > Len(msg) THEN <<ck_a, ck_b>>
    ELSE checksum_loop(msg, i + 1, ck_a + msg[i], ck_b + (ck_a + msg[i]))

\* checksum with 'ck_b += c' in place of 'ck_b += ck_a'
checksum_plain(msg, m_len) ==
    LET r == checksum_loop(SubSeq(msg, 1, Min(m_len, Len(msg))), 1, 0, 0)
    IN  <<r[1] % 256, r[1] % 256>>

\* checksum(msg, m_len): both sums run over msg[0:m_len], masked at the end
checksum(msg, m_len) ==
    LET r == checksum_loop(SubSeq(msg, 1, Min(m_len, Len(msg))), 1, 0, 0)
    IN  <<r[1] % 256, r[2] % 256>>

\* make_pkt packing the length big endian
make_pkt_bigendian(m_class, m_id, m_data) ==
    LET m_len == Len(m_data)
        msg == <<m_class, m_id, m_len \div 256, m_len % 256>> \o m_data
        chk == checksum(msg, m_len + 4)
    IN  <<181, 98>> \o msg \o <<chk[1], chk[2]>>

\* make_pkt(m_class, m_id, m_data), for len(m_data) < 65536
make_pkt(m_class, m_id, m_data) ==
    LET m_len == Len(m_data)
        msg == <<m_class, m_id, m_len % 256, m_len \div 256>> \o m_data
                   \o <<0, 0>>
        chk == checksum(msg, m_len + 4)
    IN  <<181, 98>> \o SubSeq(msg, 1, m_len + 4) \o <<chk[1], chk[2]>>

----------------------------------------------------------------------------
\* decode_msg: the catalog lookup and rendering of a complete frame

x_payload(m_payload) == [i \in 1..Len(m_payload) |-> Hex2(m_payload[i])]

RenderRes(s, pv, raised, dec) ==
    [s |-> s, protver |-> pv, raised |-> raised, dec |-> dec]

\* s_payload += this_id['dec'](self, m_payload)
Decoded(head, d, dec) == RenderRes(head \o d.s, d.protver, d.raised, dec)

\* the deprecation test as 'depver < protver'
render_entry_strict(this_id, m_len, m_payload, pv, verb) ==
    IF "name" \notin DOMAIN this_id
    THEN RenderRes(<<>>, pv, TRUE, "")
    ELSE LET head == <<this_id.name, ":\n">>
                       \o (IF "depver" \in DOMAIN this_id /\ this_id.depver < pv
                           THEN <<"WARNING:  protVer is, deprecated">>
                           ELSE <<>>)
         IN  IF "minlen" \in DOMAIN this_id /\ m_len = 0 /\ this_id.minlen # 0
             THEN RenderRes(head \o <<"  Poll request">>, pv, FALSE, "")
             ELSE IF "minlen" \in DOMAIN this_id /\ this_id.minlen > m_len
             THEN RenderRes(head \o <<"  Bad Length ", ToString(m_len)>>,
                            pv, FALSE, "")
             ELSE IF "dec" \in DOMAIN this_id
             THEN Decoded(head, CallDec(this_id.dec, m_payload, pv, verb),
                          this_id.dec)
             ELSE RenderRes(head \o <<"  len ", HexAlt(m_len), ", raw ">>
                                \o x_payload(m_payload),
                            pv, FALSE, "")

\* render_entry without the poll and length tests
render_entry_nominlen(this_id, m_len, m_payload, pv, verb) ==
    IF "name" \notin DOMAIN this_id
    THEN RenderRes(<<>>, pv, TRUE, "")
    ELSE RenderRes(<<this_id.name, ":\n", "  len ", HexAlt(m_len), ", raw ">>
                       \o x_payload(m_payload),
                   pv, FALSE, "")

\* the entry found: name, deprecation warning, then poll / bad length /
\* decoder / raw bytes
render_entry(this_id, m_len, m_payload, pv, verb) ==
    IF "name" \notin DOMAIN this_id
    THEN RenderRes(<<>>, pv, TRUE, "")
    ELSE LET head == <<this_id.name, ":\n">>
                       \o (IF "depver" \in DOMAIN this_id /\ this_id.depver <= pv
                           THEN <<"WARNING:  protVer is, deprecated">>
                           ELSE <<>>)
         IN  IF "minlen" \in DOMAIN this_id /\ m_len = 0 /\ this_id.minlen # 0
             THEN RenderRes(head \o <<"  Poll request">>, pv, FALSE, "")
             ELSE IF "minlen" \in DOMAIN this_id /\ this_id.minlen > m_len
             THEN RenderRes(head \o <<"  Bad Length ", ToString(m_len)>>,
                            pv, FALSE, "")
             ELSE IF "dec" \in DOMAIN this_id
             THEN Decoded(head, CallDec(this_id.dec, m_payload, pv, verb),
                          this_id.dec)
             ELSE RenderRes(head \o <<"  len ", HexAlt(m_len), ", raw ">>
                                \o x_payload(m_payload),
                            pv, FALSE, "")

\* s_payload starts as the payload in hex and is replaced only when the
\* class is in the catalog
lookup(m_class, m_id, m_len, m_payload, pv, verb) ==
    IF m_class \in DOMAIN classes
    THEN IF "ids" \in DOMAIN classes[m_class]
         THEN IF m_id \in DOMAIN classes[m_class].ids
              THEN render_entry(classes[m_class].ids[m_id],
                                m_len, m_payload, pv, verb)
              ELSE RenderRes(class_id_s(m_class, m_id)
                                 \o <<": Unknown message type\n",
                                      "  len ", HexAlt(m_len), ", raw ">>
                                 \o x_payload(m_payload),
                             pv, FALSE, "")
         ELSE RenderRes(x_payload(m_payload), pv, FALSE, "")
    ELSE RenderRes(x_payload(m_payload), pv, FALSE, "")

\* 'if not s_payload': an empty s_payload gets the numeric fallback
if_not_s_payload(r, m_class, m_id, m_len, m_payload) ==
    IF ~r.raised /\ r.s = <<>>
    THEN RenderRes(class_id_s(m_class, m_id)
                       \o <<", len ", HexAlt(m_len), ", raw ">>
                       \o x_payload(m_payload),
                   r.protver, FALSE, r.dec)
    ELSE r

render_frame(m_class, m_id, m_len, m_payload, pv, verb) ==
    if_not_s_payload(lookup(m_class, m_id, m_len, m_payload, pv, verb),
                     m_class, m_id, m_len, m_payload)

----------------------------------------------------------------------------
\* decode_msg: one pass of the byte loop.  A step result carries the locals,
\* what the pass printed, whether the loop continues, returns or raises,
\* the value returned, and self.protver afterwards.

StepRes(l, prints, done, r, pv, frames, disp, dec) ==
    [loc |-> l, out |-> prints, done |-> done, ret |-> r, protver |-> pv,
     frames |-> frames, disp |-> disp, dec |-> dec]

Cont(l, pv) == StepRes(l, <<>>, "continue", 0, pv, <<>>, <<>>, "")

\* '{"class":"ERROR"'
ERROR_MARK ==
    <<123, 34, 99, 108, 97, 115, 115, 34, 58, 34, 69, 82, 82, 79, 82, 34>>

\* needle in text
Contains(text, needle) ==
    \E i \in 1..(Len(text) - Len(needle) + 1) :
        SubSeq(text, i, i + Len(needle) - 1) = needle

IsEOL(c) == c = 10 \/ c = 13

\* 'BASE' == state
state_BASE(l, c, pv, verb) ==
    LET fresh == [l EXCEPT !.comment = <<>>, !.m_class = 0, !.m_id = 0,
                           !.m_len = 0, !.m_raw = <<>>, !.m_payload = <<>>,
                           !.m_ck_a = 0, !.m_ck_b = 0]
    IN  IF c = 181 THEN Cont([fresh EXCEPT !.state = "HEADER1"], pv)
        ELSE IF c = 36
        THEN Cont([fresh EXCEPT !.state = "NMEA", !.comment = <<36>>], pv)
        ELSE IF c = 123
        THEN Cont([fresh EXCEPT !.state = "JSON", !.comment = <<123>>], pv)
        ELSE IF c = 35
        THEN Cont([fresh EXCEPT !.state = "COMMENT", !.comment = <<35>>], pv)
        ELSE IF c = 211
        THEN Cont([fresh EXCEPT !.state = "RTCM3_1", !.comment = <<35>>], pv)
        ELSE IF IsEOL(c)
        THEN StepRes(fresh, <<>>, "return", 1, pv, <<>>, <<>>, "")
        ELSE Cont(fresh, pv)

\* COMMENT and JSON lines printed by verbosity alone
state_COMMENT_JSON_quiet(l, c, pv, verb) ==
    IF IsEOL(c)
    THEN StepRes(l,
                 IF VERB_DECODE <= verb
                 THEN <<Pr("comment", <<>>, l.comment)>> ELSE <<>>,
                 "return", l.consumed, pv, <<"line">>, <<>>, "")
    ELSE Cont([l EXCEPT !.comment = @ \o <<c>>], pv)

\* state in ('COMMENT', 'JSON')
state_COMMENT_JSON(l, c, pv, verb) ==
    IF IsEOL(c)
    THEN StepRes(l,
                 IF Contains(l.comment, ERROR_MARK) \/ VERB_DECODE <= verb
                 THEN <<Pr("comment", <<>>, l.comment)>> ELSE <<>>,
                 "return", l.consumed, pv, <<"line">>, <<>>, "")
    ELSE Cont([l EXCEPT !.comment = @ \o <<c>>], pv)

\* NMEA ended by LF only
state_NMEA_lf(l, c, pv, verb) ==
    IF c = 10
    THEN StepRes(l,
                 IF VERB_DECODE <= verb
                 THEN <<Pr("comment", <<>>, l.comment)>> ELSE <<>>,
                 "return", l.consumed, pv, <<"nmea">>, <<>>, "")
    ELSE Cont([l EXCEPT !.comment = @ \o <<c>>], pv)

\* 'NMEA' == state
state_NMEA(l, c, pv, verb) ==
    IF IsEOL(c)
    THEN StepRes(l,
                 IF VERB_DECODE <= verb
                 THEN <<Pr("comment", <<>>, l.comment)>> ELSE <<>>,
                 "return", l.consumed, pv, <<"nmea">>, <<>>, "")
    ELSE Cont([l EXCEPT !.comment = @ \o <<c>>], pv)

\* 'RTCM3_1' == state: 0 != (c & 0xfc) goes back to BASE
state_RTCM3_1(l, c, pv, verb) ==
    IF c \div 4 # 0
    THEN Cont([l EXCEPT !.state = "BASE"], pv)
    ELSE Cont([l EXCEPT !.m_len = c * 256, !.state = "RTCM3_2",
                        !.m_raw = @ \o <<c>>], pv)

\* RTCM3_2 without 'm_len += 3'
state_RTCM3_2_nocrc(l, c, pv, verb) ==
    Cont([l EXCEPT !.m_len = (@ \div 256) * 256 + c,
                   !.state = "RTCM3_PAYLOAD", !.m_raw = @ \o <<c>>], pv)

\* 'RTCM3_2' == state: m_len |= 0xff & c, plus 3 for the checksum
state_RTCM3_2(l, c, pv, verb) ==
    Cont([l EXCEPT !.m_len = (@ \div 256) * 256 + c + 3,
                   !.state = "RTCM3_PAYLOAD", !.m_raw = @ \o <<c>>], pv)

\* 'RTCM3_PAYLOAD' == state: the frame completes, and the loop goes on
state_RTCM3_PAYLOAD(l, c, pv, verb) ==
    LET l1 == [l EXCEPT !.m_len = @ - 1, !.m_raw = @ \o <<c>>,
                        !.m_payload = @ \o <<c>>]
        ptype == l1.m_payload[1] * 16 + (l1.m_payload[2] \div 16)
    IN  IF l1.m_len = 0
        THEN StepRes([l1 EXCEPT !.state = "BASE"],
                     IF VERB_DECODE <= verb
                     THEN <<Pr("RTCM3 packet: type", <<>>, <<ptype>>)>>
                     ELSE <<>>,
                     "continue", 0, pv, <<"rtcm3">>, <<>>, "")
        ELSE Cont(l1, pv)

\* 'HEADER2' .. 'CSUM1': class, id, the two length bytes, the payload and
\* the first checksum byte
state_HEADER2(l, c, pv, verb) ==
    Cont([l EXCEPT !.state = "CLASS", !.m_class = c, !.m_raw = @ \o <<c>>], pv)

state_CLASS(l, c, pv, verb) ==
    Cont([l EXCEPT !.state = "ID", !.m_id = c, !.m_raw = @ \o <<c>>], pv)

state_ID(l, c, pv, verb) ==
    Cont([l EXCEPT !.state = "LEN1", !.m_len = c, !.m_raw = @ \o <<c>>], pv)

\* LEN1 without the 'if 0 == m_len' test: PAYLOAD always follows
state_LEN1_payload(l, c, pv, verb) ==
    Cont([l EXCEPT !.m_raw = @ \o <<c>>, !.m_len = l.m_len + 256 * c,
                   !.state = "PAYLOAD"], pv)

state_LEN1(l, c, pv, verb) ==
    LET m_len == l.m_len + 256 * c
    IN  Cont([l EXCEPT !.m_raw = @ \o <<c>>, !.m_len = m_len,
                       !.state = IF m_len = 0 THEN "CSUM1" ELSE "PAYLOAD"], pv)

state_PAYLOAD(l, c, pv, verb) ==
    LET l1 == [l EXCEPT !.m_raw = @ \o <<c>>, !.m_payload = @ \o <<c>>]
    IN  Cont([l1 EXCEPT !.state = IF Len(l1.m_payload) = l1.m_len
                                  THEN "CSUM1" ELSE "PAYLOAD"], pv)

state_CSUM1(l, c, pv, verb) ==
    Cont([l EXCEPT !.state = "CSUM2", !.m_ck_a = c], pv)

\* the checksum warning, if the received sums differ from chk
csum_warn(l, c, chk) ==
    IF chk[1] # l.m_ck_a \/ chk[2] # c
    THEN <<Pr("ERROR checksum failed", <<>>, <<l.m_ck_a, c, chk[1], chk[2]>>)>>
    ELSE <<>>

\* the lines printed at VERB_INFO
csum_info(l, c, verb) ==
    IF VERB_INFO <= verb
    THEN <<Pr("len:", class_id_s(l.m_class, l.m_id), <<l.m_len>>),
           Pr("header:", <<>>, <<181, 98>> \o SubSeq(l.m_raw, 1, 4)),
           Pr("payload:", <<>>, l.m_payload),
           Pr("chksum:", <<>>, <<l.m_ck_a, c>>)>>
    ELSE <<>>

\* the end of the frame, r being what the catalog made of it
csum_done(l, c, verb, warn, r) ==
    IF r.raised
    THEN StepRes([l EXCEPT !.state = "BASE", !.m_ck_b = c], warn, "raise", 0,
                 r.protver, <<"ubx">>,
                 <<[m_class |-> l.m_class, m_id |-> l.m_id,
                    m_payload |-> l.m_payload]>>, r.dec)
    ELSE StepRes([l EXCEPT !.state = "BASE", !.m_ck_b = c],
                 warn \o csum_info(l, c, verb) \o <<Pr("report", r.s, <<>>)>>,
                 "return", l.consumed, r.protver, <<"ubx">>,
                 <<[m_class |-> l.m_class, m_id |-> l.m_id,
                    m_payload |-> l.m_payload]>>, r.dec)

\* 'CSUM2' == state, giving up on a frame whose checksum fails
state_CSUM2_strict(l, c, pv, verb) ==
    IF csum_warn(l, c, checksum(l.m_raw, Len(l.m_raw))) # <<>>
    THEN StepRes([l EXCEPT !.state = "BASE", !.m_ck_b = c],
                 csum_warn(l, c, checksum(l.m_raw, Len(l.m_raw))),
                 "return", l.consumed, pv, <<>>, <<>>, "")
    ELSE csum_done(l, c, verb, <<>>,
                   render_frame(l.m_class, l.m_id, l.m_len, l.m_payload,
                                pv, verb))

\* 'CSUM2' == state: a complete, maybe valid, message
state_CSUM2(l, c, pv, verb) ==
    csum_done(l, c, verb,
              csum_warn(l, c, checksum(l.m_raw, Len(l.m_raw))),
              render_frame(l.m_class, l.m_id, l.m_len, l.m_payload, pv, verb))

\* one iteration of 'for this_byte in out', consumed already counted
\* the loop without its last line, 'state = BASE' when nothing matched
loop_body_stay(l, c, pv, verb) ==
    CASE l.state = "BASE" -> state_BASE(l, c, pv, verb)
      [] l.state \in {"COMMENT", "JSON"} -> state_COMMENT_JSON(l, c, pv, verb)
      [] l.state = "NMEA" -> state_NMEA(l, c, pv, verb)
      [] l.state = "RTCM3_1" -> state_RTCM3_1(l, c, pv, verb)
      [] l.state = "RTCM3_2" -> state_RTCM3_2(l, c, pv, verb)
      [] l.state = "RTCM3_PAYLOAD" -> state_RTCM3_PAYLOAD(l, c, pv, verb)
      [] l.state = "HEADER1" /\ c = 98 -> Cont([l EXCEPT !.state = "HEADER2"], pv)
      [] l.state = "HEADER2" -> state_HEADER2(l, c, pv, verb)
      [] l.state = "CLASS" -> state_CLASS(l, c, pv, verb)
      [] l.state = "ID" -> state_ID(l, c, pv, verb)
      [] l.state = "LEN1" -> state_LEN1(l, c, pv, verb)
      [] l.state = "PAYLOAD" -> state_PAYLOAD(l, c, pv, verb)
      [] l.state = "CSUM1" -> state_CSUM1(l, c, pv, verb)
      [] l.state = "CSUM2" -> state_CSUM2(l, c, pv, verb)
      [] OTHER -> Cont(l, pv)

\* the loop with the byte that ends HEADER1 looked at again as the first
\* byte of a frame
loop_body_reexamine(l, c, pv, verb) ==
    CASE l.state = "BASE" -> state_BASE(l, c, pv, verb)
      [] l.state \in {"COMMENT", "JSON"} -> state_COMMENT_JSON(l, c, pv, verb)
      [] l.state = "NMEA" -> state_NMEA(l, c, pv, verb)
      [] l.state = "RTCM3_1" -> state_RTCM3_1(l, c, pv, verb)
      [] l.state = "RTCM3_2" -> state_RTCM3_2(l, c, pv, verb)
      [] l.state = "RTCM3_PAYLOAD" -> state_RTCM3_PAYLOAD(l, c, pv, verb)
      [] l.state = "HEADER1" /\ c = 98 -> Cont([l EXCEPT !.state = "HEADER2"], pv)
      [] l.state = "HEADER2" -> state_HEADER2(l, c, pv, verb)
      [] l.state = "CLASS" -> state_CLASS(l, c, pv, verb)
      [] l.state = "ID" -> state_ID(l, c, pv, verb)
      [] l.state = "LEN1" -> state_LEN1(l, c, pv, verb)
      [] l.state = "PAYLOAD" -> state_PAYLOAD(l, c, pv, verb)
      [] l.state = "CSUM1" -> state_CSUM1(l, c, pv, verb)
      [] l.state = "CSUM2" -> state_CSUM2(l, c, pv, verb)
      [] OTHER -> state_BASE(l, c, pv, verb)

loop_body(l, c, pv, verb) ==
    CASE l.state = "BASE" -> state_BASE(l, c, pv, verb)
      [] l.state \in {"COMMENT", "JSON"} -> state_COMMENT_JSON(l, c, pv, verb)
      [] l.state = "NMEA" -> state_NMEA(l, c, pv, verb)
      [] l.state = "RTCM3_1" -> state_RTCM3_1(l, c, pv, verb)
      [] l.state = "RTCM3_2" -> state_RTCM3_2(l, c, pv, verb)
      [] l.state = "RTCM3_PAYLOAD" -> state_RTCM3_PAYLOAD(l, c, pv, verb)
      [] l.state = "HEADER1" /\ c = 98 -> Cont([l EXCEPT !.state = "HEADER2"], pv)
      [] l.state = "HEADER2" -> state_HEADER2(l, c, pv, verb)
      [] l.state = "CLASS" -> state_CLASS(l, c, pv, verb)
      [] l.state = "ID" -> state_ID(l, c, pv, verb)
      [] l.state = "LEN1" -> state_LEN1(l, c, pv, verb)
      [] l.state = "PAYLOAD" -> state_PAYLOAD(l, c, pv, verb)
      [] l.state = "CSUM1" -> state_CSUM1(l, c, pv, verb)
      [] l.state = "CSUM2" -> state_CSUM2(l, c, pv, verb)
      [] OTHER -> Cont([l EXCEPT !.state = "BASE"], pv)   \* give up

\* the VERB_RAW trace line
trace(l, c, verb) ==
    IF VERB_RAW <= verb THEN <<Pr("state:", <<l.state>>, <<c>>)>> ELSE <<>>

traced(t, r) == [r EXCEPT !.out = t \o @]

\* consumed += 1, the trace line, then the state machine
Step(l, c, pv, verb) ==
    traced(trace(l, c, verb),
           loop_body([l EXCEPT !.consumed = @ + 1], c, pv, verb))

\* the locals when decode_msg is entered
Loc0 ==
    [state |-> "BASE", consumed |-> 0, comment |-> <<>>, m_class |-> 0,
     m_id |-> 0, m_len |-> 0, m_raw |-> <<>>, m_payload |-> <<>>,
     m_ck_a |-> 0, m_ck_b |-> 0]

\* decode_msg(out) as a whole: the loop run from its entry to a return, an
\* exception or the end of 'out'
RECURSIVE decode_msg_from(_, _, _, _, _)
decode_msg_next(r, bytes, verb, prints) ==
    IF r.done = "continue"
    THEN decode_msg_from(r.loc, bytes, r.protver, verb, prints \o r.out)
    ELSE [done |-> r.done, ret |-> r.ret, out |-> prints \o r.out,
          protver |-> r.protver]

decode_msg_from(l, bytes, pv, verb, prints) ==
    IF l.consumed = Len(bytes)
    THEN [done |-> "return", ret |-> 0, out |-> prints, protver |-> pv]
    ELSE decode_msg_next(Step(l, bytes[l.consumed + 1], pv, verb),
                         bytes, verb, prints)

decode_msg(bytes, pv, verb) == decode_msg_from(Loc0, bytes, pv, verb, <<>>)
----------------------------------------------------------------------------
\* What a session is given.  An item is a command to send, or one frame,
\* line or stray byte the device sends; a UBX item remembers the class, id
\* and payload it was built from.

Item(kind, bytes, m_class, m_id, m_payload) ==
    [kind |-> kind, bytes |-> bytes, m_class |-> m_class, m_id |-> m_id,
     m_payload |-> m_payload]

UbxItem(m_class, m_id, m_payload) ==
    Item("ubx", make_pkt(m_class, m_id, m_payload), m_class, m_id, m_payload)

\* the same frame with one checksum byte changed: which = 0 for the first,
\* 1 for the last, which becomes 0x00, or 0x01 if it was 0x00
BadCkItem(m_class, m_id, m_payload, which) ==
    LET pkt == make_pkt(m_class, m_id, m_payload)
        at == Len(pkt) - 1 + which
    IN  Item("ubx_badck",
             [pkt EXCEPT ![at] = IF @ = 0 THEN 1 ELSE 0],
             m_class, m_id, m_payload)

\* a command for gps_send
CmdItem(m_class, m_id, m_payload) ==
    Item("cmd", <<>>, m_class, m_id, m_payload)

TextItem(kind, bytes) == Item(kind, bytes, 0, 0, <<>>)

RECURSIVE Flatten(_)
Flatten(items) ==
    IF items = <<>> THEN <<>> ELSE Head(items).bytes \o Flatten(Tail(items))

\* sequences of at most n elements of S
SeqUpTo(S, n) == UNION {[1..k -> S] : k \in 0..n}

\* every (class, id) of the catalog
CatalogPairs ==
    UNION {{<<c, i>> : i \in DOMAIN classes[c].ids} : c \in DOMAIN classes}

\* pairs outside the catalog: unknown class, and unknown id of a known class
UnknownPairs == {<<127, 127>>, <<127, 4>>, <<10, 127>>, <<240, 127>>}

\* the payloads tried for every pair: each length up to MaxPayload, filled
\* with one byte value
FillBytes == {0, 255}

FillPayloads == {Fill(n, b) : n \in 0..MaxPayload, b \in FillBytes}

\* A payload reaches a decode routine only if that routine is modelled.
Decodable(m_class, m_id, m_payload) ==
    \/ <<m_class, m_id>> \notin CatalogPairs
    \/ LET this_id == classes[m_class].ids[m_id]
       IN  \/ "dec" \notin DOMAIN this_id
           \/ this_id.dec \in Modelled
           \/ "minlen" \in DOMAIN this_id /\ this_id.minlen > Len(m_payload)


PayloadsOf(p) == {d \in FillPayloads : Decodable(p[1], p[2], d)}

\* a payload of bytes that start or end a frame outside a payload:
\* 0xb5 'b' '$' '{' '#' 0xd3 CR LF
FramingBytes == <<181, 98, 36, 123, 35, 211, 13, 10>>

\* one command per pair and payload, and one whose payload is FramingBytes
\* for every pair outside the catalog
CatalogCommands ==
    UNION {{CmdItem(p[1], p[2], d) : d \in PayloadsOf(p)} :
           p \in CatalogPairs \cup UnknownPairs}
    \cup {CmdItem(p[1], p[2], FramingBytes) : p \in UnknownPairs}

\* what the device sends in a catalog session: one frame per pair and
\* payload with a bad checksum, or a stray byte
CatalogItems ==
    UNION {{BadCkItem(p[1], p[2], d, w) : d \in PayloadsOf(p), w \in {0, 1}} :
           p \in CatalogPairs \cup UnknownPairs}
    \cup {TextItem("junk", <<0>>)}

\* the items of a mixed stream: a UBX poll, an NMEA line up to its CR, a
\* lone LF, a JSON line, an RTCM3 frame of length 0, a stray byte
StreamItems ==
    {UbxItem(10, 4, <<>>),
     TextItem("nmea", <<36, 71, 13>>),
     TextItem("lf", <<10>>),
     TextItem("json", <<123, 125, 10>>),
     TextItem("rtcm3", <<211, 0, 0, 1, 2, 3>>),
     TextItem("junk", <<0>>)}

\* a UBX-MON-VER payload: 40 bytes of versions, then one 30-byte extension
\* 'PROTVER=' followed by the digits given
MonVerPayload(digits) ==
    LET ext == PROTVER \o <<61>> \o digits
    IN  Fill(40, 0) \o ext \o Fill(30 - Len(ext), 0)

\* "18.00" and "32.01"
Digits1800 == <<49, 56, 46, 48, 48>>

Digits3201 == <<51, 50, 46, 48, 49>>

\* the frames of a session about the protocol version: two MON-VER answers
\* with a PROTVER extension and one without, a CFG-VALGET answer (27), a
\* CFG-VALGET poll, ESF-RAW (15) and CFG-DOSC (16), and a stray byte
ProtverItems ==
    {UbxItem(10, 4, MonVerPayload(Digits1800)),
     UbxItem(10, 4, MonVerPayload(Digits3201)),
     UbxItem(10, 4, Fill(40, 0)),
     UbxItem(6, 139, <<1, 0, 0, 0>>),
     UbxItem(6, 139, <<0, 0, 0, 0>>),
     UbxItem(16, 3, <<0, 0, 0, 0>>),
     UbxItem(6, 97, <<0, 0, 0, 0>>),
     TextItem("junk", <<0>>)}

----------------------------------------------------------------------------
\* The session.  Either gps_send builds a command, writes it and echoes it
\* through decode_msg, or the caller reads what the device sent into its
\* buffer, calls decode_msg on the buffer, and drops the bytes the call
\* consumed.

verbosities == {VERB_QUIET, VERB_NONE, VERB_DECODE, VERB_INFO, VERB_RAW}

\* the whole stream as one chunk, or cut in two at any byte
Chunkings(all, chunked) ==
    {SelectSeq(<<SubSeq(all, 1, k), SubSeq(all, k + 1, Len(all))>>,
               LAMBDA x : x # <<>>) :
        k \in IF chunked THEN 0..Len(all) ELSE {0}}

InitWith(scripts, chunked, verbs, ros) ==
    /\ script \in scripts
    /\ wire \in Chunkings(Flatten(script), chunked)
    /\ out = <<>>
    /\ pc = IF script # <<>> /\ script[1].kind = "cmd" THEN "cmd" ELSE "read"
    /\ echo = FALSE
    /\ loc = Loc0
    /\ printed = <<>>
    /\ mark = 0
    /\ ret = 0
    /\ protver = DefaultProtver
    /\ verbosity \in verbs
    /\ read_only \in ros
    /\ sent = <<>>
    /\ dispatched = <<>>
    /\ completed = <<>>
    /\ calls = 0
    /\ lastdec = ""
    /\ arg = [call |-> ""]
    /\ nvs = <<>>
    /\ cfg_item = None
    /\ cfg_type = None
    /\ result = None
    /\ todo = <<>>

\* where a command that has been sent goes on: in the loop of
\* send_cfg_valset, in the command that sends several frames, or nowhere
Returning ==
    IF arg.call = "send_cfg_valset" THEN "valset"
    ELSE IF arg.call \in {"send_cmds", "get_status", "send_able_binary"}
    THEN "sending"
    ELSE "done"

\* gps_send_raw without 'if not self.read_only'
gps_send_raw_writes(m_all) ==
    LET shown == VERB_QUIET < verbosity
    IN  /\ sent' = Append(sent, m_all)
        /\ printed' =
               IF ~shown THEN printed
               ELSE printed \o <<Pr("sent:", <<>>, <<>>)>>
                    \o (IF VERB_INFO < verbosity
                        THEN <<Pr("hexlify", <<>>, m_all)>> ELSE <<>>)
        /\ out' = IF ~shown THEN out ELSE m_all
        /\ echo' = shown
        /\ pc' = IF ~shown THEN Returning ELSE "call"

\* gps_send_raw(m_all) up to its call of decode_msg
gps_send_raw(m_all) ==
    LET shown == VERB_QUIET < verbosity
    IN  /\ sent' = IF read_only THEN sent ELSE Append(sent, m_all)
        /\ printed' =
               IF read_only \/ ~shown THEN printed
               ELSE printed \o <<Pr("sent:", <<>>, <<>>)>>
                    \o (IF VERB_INFO < verbosity
                        THEN <<Pr("hexlify", <<>>, m_all)>> ELSE <<>>)
        /\ out' = IF read_only \/ ~shown THEN out ELSE m_all
        /\ echo' = (~read_only /\ shown)
        /\ pc' = IF read_only \/ ~shown THEN Returning ELSE "call"

\* gps_send(m_class, m_id, m_data) of the session's command
gps_send ==
    /\ pc = "cmd"
    /\ gps_send_raw(make_pkt(script[1].m_class, script[1].m_id,
                             script[1].m_payload))
    /\ UNCHANGED <<script, wire, loc, mark, ret, protver, verbosity,
                   read_only, dispatched, completed, calls, lastdec>>
    /\ UNCHANGED cfgvars

\* decode_msg returned into gps_send_raw, which drops the value and flushes
gps_send_raw_return ==
    /\ pc = "ret"
    /\ echo
    /\ echo' = FALSE
    /\ pc' = Returning
    /\ UNCHANGED <<script, wire, out, loc, printed, mark, ret, protver,
                   verbosity, read_only, sent, dispatched, completed, calls,
                   lastdec>>
    /\ UNCHANGED cfgvars

\* the caller appends the next chunk the serial port delivers
caller_read ==
    /\ pc = "read"
    /\ wire # <<>>
    /\ out' = out \o Head(wire)
    /\ wire' = Tail(wire)
    /\ pc' = "call"
    /\ UNCHANGED <<script, echo, loc, printed, mark, ret, protver, verbosity,
                   read_only, sent, dispatched, completed, calls, lastdec>>
    /\ UNCHANGED cfgvars

\* decode_msg entered with the state the previous call left
decode_msg_call_resume ==
    /\ pc = "call"
    /\ loc' = [loc EXCEPT !.consumed = 0]
    /\ mark' = Len(printed)
    /\ completed' = <<>>
    /\ calls' = calls + 1
    /\ pc' = "loop"
    /\ UNCHANGED <<script, wire, out, echo, printed, ret, protver, verbosity,
                   read_only, sent, dispatched, lastdec>>
    /\ UNCHANGED cfgvars

\* decode_msg(out) is entered: state = 'BASE', consumed = 0
decode_msg_call ==
    /\ pc = "call"
    /\ loc' = Loc0
    /\ mark' = Len(printed)
    /\ completed' = <<>>
    /\ calls' = calls + 1
    /\ pc' = "loop"
    /\ UNCHANGED <<script, wire, out, echo, printed, ret, protver, verbosity,
                   read_only, sent, dispatched, lastdec>>
    /\ UNCHANGED cfgvars

\* what one pass of the loop leaves behind
loop_pass(r) ==
    /\ loc' = r.loc
    /\ printed' = printed \o r.out
    /\ protver' = r.protver
    /\ completed' = completed \o r.frames
    /\ dispatched' = dispatched \o r.disp
    /\ lastdec' = IF r.disp # <<>> THEN r.dec ELSE lastdec
    /\ ret' = IF r.done = "return" THEN r.ret ELSE ret
    /\ pc' = CASE r.done = "return" -> "ret"
               [] r.done = "raise" -> "raise"
               [] OTHER -> "loop"

\* one byte of 'for this_byte in out', up to and including a return or an
\* exception inside it
decode_msg_byte ==
    /\ pc = "loop"
    /\ loc.consumed < Len(out)
    /\ loop_pass(Step(loc, out[loc.consumed + 1], protver, verbosity))
    /\ UNCHANGED <<script, wire, out, echo, mark, verbosity, read_only, sent,
                   calls>>
    /\ UNCHANGED cfgvars

\* fell out of the loop, no more chars to look at
decode_msg_eof ==
    /\ pc = "loop"
    /\ loc.consumed = Len(out)
    /\ ret' = 0
    /\ pc' = "ret"
    /\ UNCHANGED <<script, wire, out, echo, loc, printed, mark, protver,
                   verbosity, read_only, sent, dispatched, completed, calls,
                   lastdec>>
    /\ UNCHANGED cfgvars

\* the caller: out = out[n:], then decode again while something was
\* consumed and bytes remain, else wait for more input
caller_slice ==
    /\ pc = "ret"
    /\ ~echo
    /\ out' = SubSeq(out, ret + 1, Len(out))
    /\ pc' = IF ret > 0 /\ out' # <<>> THEN "call" ELSE "read"
    /\ UNCHANGED <<script, wire, echo, loc, printed, mark, ret, protver,
                   verbosity, read_only, sent, dispatched, completed, calls,
                   lastdec>>
    /\ UNCHANGED cfgvars

\* the device's stream, read and decoded by the caller
Next ==
    \/ caller_read
    \/ decode_msg_call
    \/ decode_msg_byte
    \/ decode_msg_eof
    \/ caller_slice

\* mixed streams of up to MaxItems items, delivered in one or two reads
Init ==
    InitWith(SeqUpTo(StreamItems, MaxItems), TRUE, {VERB_NONE, VERB_DECODE},
             {FALSE})

Spec == Init /\ [][Next]_vars

\* one command of every catalog entry, sent and echoed, or one frame the
\* device delivers whole
InitCatalog ==
    \/ InitWith({<<x>> : x \in CatalogCommands}, FALSE, verbosities, BOOLEAN)
    \/ InitWith({<<x>> : x \in CatalogItems}, FALSE,
                {VERB_NONE, VERB_DECODE, VERB_INFO}, {FALSE})

NextCatalog ==
    \/ gps_send
    \/ gps_send_raw_return
    \/ caller_read
    \/ decode_msg_call
    \/ decode_msg_byte
    \/ decode_msg_eof
    \/ caller_slice

SpecCatalog == InitCatalog /\ [][NextCatalog]_vars

\* sessions of up to MaxItems frames that bear on the protocol version
InitProtver ==
    InitWith(SeqUpTo(ProtverItems, MaxItems), FALSE, {VERB_NONE}, {FALSE})

SpecProtver == InitProtver /\ [][Next]_vars

\* an RTCM3 frame of the length given: 0xd3, the 10-bit length, that many
\* bytes and three more, which are not a CRC of the rest
Rtcm3Item(n, fill) ==
    TextItem("rtcm3", <<211, n \div 256, n % 256>> \o Fill(n, fill) \o <<1, 2, 3>>)

\* the longest RTCM3 payload of a stream
MaxRtcm == 257

\* the items of a stream of every kind of frame: a UBX poll and a UBX frame
\* whose payload is the framing bytes; an NMEA line
\* with CR LF; JSON and comment lines, ended by LF or CR, with and without
\* the gpsd error text; RTCM3 frames of length 0 and 1 and one that needs
\* the two high bits of the length; 0xd3 and 0xb5 followed by a byte that
\* ends the frame; a stray byte
FramerItems ==
    {UbxItem(10, 4, <<>>),
     UbxItem(127, 127, FramingBytes),
     TextItem("nmea", <<36, 71, 13, 10>>),
     TextItem("line", <<123, 125, 10>>),
     TextItem("line", <<35, 120, 13>>),
     TextItem("line", ERROR_MARK \o <<125, 10>>),
     TextItem("line", <<35>> \o ERROR_MARK \o <<13>>),
     Rtcm3Item(0, 0),
     Rtcm3Item(1, 181),
     Rtcm3Item(MaxRtcm, 36),
     TextItem("rtcm3_abort", <<211, 4>>),
     TextItem("abort", <<181, 0>>),
     TextItem("abort", <<181, 36>>),
     TextItem("abort", <<181, 181>>),
     TextItem("junk", <<0>>)}

\* streams of every kind of frame, delivered whole
InitFramer ==
    InitWith(SeqUpTo(FramerItems, MaxItems), FALSE,
             {VERB_NONE, VERB_DECODE, VERB_RAW}, {FALSE})

SpecFramer == InitFramer /\ [][Next]_vars

----------------------------------------------------------------------------
\* The configuration calls.

\* cfg_by_name(name) is called
cfg_by_name_call ==
    /\ pc = "cfg_by_name"
    /\ cfg_item' = cfg_by_name(arg.name)
    /\ pc' = IF cfg_by_name(arg.name) = None THEN "done" ELSE "cfg_by_key"
    /\ UNCHANGED <<script, wire, out, echo, loc, printed, mark, ret, protver,
                   verbosity, read_only, sent, dispatched, completed, calls,
                   lastdec, arg, nvs, cfg_type,
                   result, todo>>

\* cfg_by_key(key) is called, with the key given or the key of the item
\* that cfg_by_name found
cfg_by_key_call ==
    /\ pc = "cfg_by_key"
    /\ cfg_item' = cfg_by_key(IF arg.call = "cfg_by_key" THEN arg.key
                              ELSE cfg_item[2])
    /\ pc' = "item_to_type"
    /\ UNCHANGED <<script, wire, out, echo, loc, printed, mark, ret, protver,
                   verbosity, read_only, sent, dispatched, completed, calls,
                   lastdec, arg, nvs, cfg_type,
                   result, todo>>

\* item_to_type(item) is called
item_to_type_call ==
    /\ pc = "item_to_type"
    /\ cfg_type' = item_to_type(cfg_item)
    /\ pc' = "done"
    /\ UNCHANGED <<script, wire, out, echo, loc, printed, mark, ret, protver,
                   verbosity, read_only, sent, dispatched, completed, calls,
                   lastdec, arg, nvs, cfg_item,
                   result, todo>>

\* the same key is looked up once more
cfg_by_key_again ==
    /\ pc = "done"
    /\ arg.call = "cfg_by_key"
    /\ pc' = "cfg_by_key"
    /\ UNCHANGED <<script, wire, out, echo, loc, printed, mark, ret, protver,
                   verbosity, read_only, sent, dispatched, completed, calls,
                   lastdec, arg, nvs, cfg_item, cfg_type,
                   result, todo>>

\* struct.pack_into(frmat, ...) raises struct.error unless the format can
\* hold the value; the values of the model stay below 2^31
CanPack(frmat, val) ==
    CASE frmat = "<B" -> val \in 0..255
      [] frmat = "<b" -> val \in -128..127
      [] frmat = "<H" -> val \in 0..65535
      [] frmat = "<h" -> val \in -32768..32767
      [] frmat \in {"<L", "<Q"} -> val >= 0
      [] frmat \in {"<l", "<q"} -> TRUE

\* the n bytes of val, low byte first
LittleEndian(val, n) ==
    [k \in 1..n |-> IF k <= 4 THEN (val \div (256 ^ (k - 1))) % 256
                    ELSE IF val < 0 THEN 255 ELSE 0]

\* kv_data: the key, then size bytes that begin with the packed value
kv_data(key, size, frmat, val) ==
    LittleEndian(key, 4) \o LittleEndian(val, calcsize(frmat))
        \o Fill(size - calcsize(frmat), 0)

\* an entry of nvs after nv.split(','): name, value and perhaps a layer;
\* the value is the integer that int(val, 0) gives
layer_of(nv) == IF 3 <= Len(nv) THEN nv[3] ELSE 7

\* the entry cannot be sent: there is no value, the layer is no byte, the
\* name is not in the table, or the value does not fit the item's format
valset_fails(nv) ==
    \/ Len(nv) < 2
    \/ layer_of(nv) \notin 0..255
    \/ cfg_by_name(nv[1]) = None
    \/ ~CanPack(item_to_type(cfg_by_name(nv[1]))[2], nv[2])
    \/ calcsize(item_to_type(cfg_by_name(nv[1]))[2])
           > item_to_type(cfg_by_name(nv[1]))[1]

\* the m_data of the frame for an entry: version 0, the layer, two zero
\* bytes, then kv_data
valset_data(nv, found, type) ==
    <<0, layer_of(nv), 0, 0>>
        \o kv_data(found[2], type[1], type[2], nv[2])

\* one pass of the loop of send_cfg_valset that skips an entry whose name
\* is not in the table
send_cfg_valset_skip ==
    /\ pc = "valset"
    /\ nvs # <<>>
    /\ nvs' = Tail(nvs)
    /\ IF Len(Head(nvs)) >= 2 /\ cfg_by_name(Head(nvs)[1]) = None
       THEN /\ pc' = "valset"
            /\ UNCHANGED <<cfg_item, cfg_type, sent, printed, out, echo>>
       ELSE IF valset_fails(Head(nvs))
       THEN /\ pc' = "raise"
            /\ UNCHANGED <<cfg_item, cfg_type, sent, printed, out, echo>>
       ELSE /\ cfg_item' = cfg_by_name(Head(nvs)[1])
            /\ cfg_type' = item_to_type(cfg_by_name(Head(nvs)[1]))
            /\ gps_send_raw(make_pkt(6, 138,
                   valset_data(Head(nvs), cfg_by_name(Head(nvs)[1]),
                               item_to_type(cfg_by_name(Head(nvs)[1])))))
    /\ UNCHANGED <<script, wire, loc, mark, ret, protver, verbosity,
                   read_only, dispatched, completed, calls, lastdec, arg,
                   result, todo>>

\* one pass of the loop of send_cfg_valset, up to an exception or to
\* gps_send_raw's call of decode_msg
send_cfg_valset ==
    /\ pc = "valset"
    /\ nvs # <<>>
    /\ nvs' = Tail(nvs)
    /\ IF Len(Head(nvs)) < 2 \/ layer_of(Head(nvs)) \notin 0..255
       THEN /\ pc' = "raise"
            /\ UNCHANGED <<cfg_item, cfg_type, sent, printed, out, echo>>
       ELSE IF cfg_by_name(Head(nvs)[1]) = None
       THEN /\ pc' = "raise"
            /\ cfg_item' = None
            /\ UNCHANGED <<cfg_type, sent, printed, out, echo>>
       ELSE IF valset_fails(Head(nvs))
       THEN /\ pc' = "raise"
            /\ cfg_item' = cfg_by_name(Head(nvs)[1])
            /\ cfg_type' = item_to_type(cfg_by_name(Head(nvs)[1]))
            /\ UNCHANGED <<sent, printed, out, echo>>
       ELSE /\ cfg_item' = cfg_by_name(Head(nvs)[1])
            /\ cfg_type' = item_to_type(cfg_by_name(Head(nvs)[1]))
            /\ gps_send_raw(make_pkt(6, 138,
                   valset_data(Head(nvs), cfg_by_name(Head(nvs)[1]),
                               item_to_type(cfg_by_name(Head(nvs)[1])))))
    /\ UNCHANGED <<script, wire, loc, mark, ret, protver, verbosity,
                   read_only, dispatched, completed, calls, lastdec, arg,
                   result, todo>>

\* the loop of send_cfg_valset has no entry left
send_cfg_valset_return ==
    /\ pc = "valset"
    /\ nvs = <<>>
    /\ pc' = "done"
    /\ UNCHANGED <<script, wire, out, echo, loc, printed, mark, ret, protver,
                   verbosity, read_only, sent, dispatched, completed, calls,
                   lastdec, arg, nvs, cfg_item, cfg_type,
                   result, todo>>

\* Most entries of one send_cfg_valset call.
MaxNvs == 3

\* the names of the table, and two that are not in it
CfgNames == {cfgs[i][1] : i \in 1..Len(cfgs)} \cup {"CFG-NOT-AN-ITEM", ""}

\* keys outside the table: every size class, a group with a label and one
\* without, the ends of the id range, and 0x12345678
OtherKeys ==
    {s * 268435456 + g * 65536 + i :
         s \in 0..7, g \in {0, 52, 153, 255}, i \in {0, 1656, 4095}}
    \cup {305419896}

CfgKeys == {cfgs[i][2] : i \in 1..Len(cfgs)} \cup OtherKeys

\* entries for send_cfg_valset: a one-byte item, a four-byte item with a
\* layer, a name that is not in the table, a value too large for its item
NvEntries ==
    {<<"CFG-NAVSPG-DYNMODEL", 4>>,
     <<"CFG-UART1-BAUDRATE", 9600, 1>>,
     <<"CFG-NOT-AN-ITEM", 1>>,
     <<"CFG-RATE-MEAS", 70000>>}

\* the state before a configuration call
InitCall(a, at, n, found) ==
    /\ script = <<>>
    /\ wire = <<>>
    /\ out = <<>>
    /\ pc = at
    /\ echo = FALSE
    /\ loc = Loc0
    /\ printed = <<>>
    /\ mark = 0
    /\ ret = 0
    /\ protver = DefaultProtver
    /\ sent = <<>>
    /\ dispatched = <<>>
    /\ completed = <<>>
    /\ calls = 0
    /\ lastdec = ""
    /\ arg = a
    /\ nvs = n
    /\ cfg_item = found
    /\ cfg_type = None
    /\ result = None
    /\ todo = <<>>

\* one call of cfg_by_name and of cfg_by_key on what it found, of cfg_by_key,
\* of item_to_type on an item of the table, or of send_cfg_valset
InitCfg ==
    \/ /\ \E name \in CfgNames :
              InitCall([call |-> "cfg_by_name", name |-> name],
                       "cfg_by_name", <<>>, None)
       /\ verbosity = VERB_NONE
       /\ read_only = FALSE
    \/ /\ \E key \in CfgKeys :
              InitCall([call |-> "cfg_by_key", key |-> key],
                       "cfg_by_key", <<>>, None)
       /\ verbosity = VERB_NONE
       /\ read_only = FALSE
    \/ /\ \E i \in 1..Len(cfgs) :
              InitCall([call |-> "item_to_type", item |-> i],
                       "item_to_type", <<>>, cfgs[i])
       /\ verbosity = VERB_NONE
       /\ read_only = FALSE
    \/ /\ \E n \in SeqUpTo(NvEntries, MaxNvs) :
              InitCall([call |-> "send_cfg_valset", nvs |-> n], "valset", n,
                       None)
       /\ verbosity \in {VERB_QUIET, VERB_NONE, VERB_DECODE}
       /\ read_only \in BOOLEAN

NextCfg ==
    \/ cfg_by_name_call
    \/ cfg_by_key_call
    \/ cfg_by_key_again
    \/ item_to_type_call
    \/ send_cfg_valset
    \/ send_cfg_valset_return
    \/ gps_send_raw_return
    \/ decode_msg_call
    \/ decode_msg_byte

SpecCfg == InitCfg /\ [][NextCfg]_vars

----------------------------------------------------------------------------
\* UBX-RXM-SFRBX frames.

\* the 8-byte header and the words, each a '<L' given by its four bytes
SfrbxPayload(gnssId, numWords, version, words) ==
    <<gnssId, 1, 0, 0, numWords, 0, version, 0>>
        \o [i \in 1..(4 * Len(words)) |-> words[(i + 3) \div 4][((i - 1) % 4) + 1]]

\* numWords words: words[0] with its top byte, words[1] with the subframe in
\* bits 8-10, words[2] with the SV ID in bits 22-27, the rest zero
SfrbxWords(numWords, preamble, subframe, svid) ==
    [k \in 1..numWords |->
        CASE k = 1 -> <<0, 0, 0, preamble>>
          [] k = 2 -> <<0, subframe, 0, 0>>
          [] k = 3 -> <<0, 0, (svid % 4) * 64, svid \div 4>>
          [] OTHER -> <<0, 0, 0, 0>>]

\* GPS, QZSS and an unknown constellation; versions 1 and 3; word counts
\* from none to the ten of an LNAV subframe; CNAV and LNAV preambles
SfrbxPayloads ==
    {SfrbxPayload(g, n, v, SfrbxWords(n, p, sf, sv)) :
        g \in {0, 4, 5}, n \in {0, 1, 2, 3, 9, 10}, v \in {1, 3},
        p \in {0, 139}, sf \in {0, 1, 4, 5}, sv \in {0, 25, 51, 63}}

\* payloads one word longer than numWords says
SfrbxLongPayloads ==
    {SfrbxPayload(g, n, 2, SfrbxWords(n + 1, 0, 0, 0)) :
        g \in {0, 4}, n \in {0, 1}}

\* one frame delivered whole, or one of the long ones in one or two reads
InitSfrbx ==
    \/ InitWith({<<UbxItem(2, 19, d)>> : d \in SfrbxPayloads}, FALSE,
                {VERB_NONE, VERB_DECODE}, {FALSE})
    \/ InitWith({<<UbxItem(2, 19, d)>> : d \in SfrbxLongPayloads}, TRUE,
                {VERB_NONE, VERB_DECODE}, {FALSE})

SpecSfrbx == InitSfrbx /\ [][Next]_vars

----------------------------------------------------------------------------
\* Module-level helpers: bit fields, packing and flag rendering.

\* x & y of two non-negative integers
RECURSIVE BitAnd(_, _)
BitAnd(x, y) ==
    IF x = 0 \/ y = 0 THEN 0
    ELSE (x % 2) * (y % 2) + 2 * BitAnd(x \div 2, y \div 2)

\* x & ~m: ~m is -(m + 1), all bits set but those of m
BitAndNot(x, m) == x - BitAnd(x, m)

\* word >> pos
ShiftRight(word, pos) == word \div (2 ^ pos)

\* two's complement reading of the 10 bits, as unpack_s11 reads its 11
unpack_s10g_twos(word, pos) ==
    LET v == BitAnd(ShiftRight(word, pos), 1023)
    IN  IF BitAnd(512, v) # 0 THEN v - 1024 ELSE v

\* unpack_s10g: GLONASS signed 10 bits, a sign bit and a magnitude
unpack_s10g(word, pos) ==
    LET v == BitAnd(ShiftRight(word, pos), 1023)
    IN  IF BitAnd(512, v) # 0 THEN 0 - BitAndNot(v, 512) ELSE v

\* unpack_s11g: GLONASS signed 11 bits
unpack_s11g(word, pos) ==
    LET v == BitAnd(ShiftRight(word, pos), 2047)
    IN  IF BitAnd(1024, v) # 0 THEN 0 - BitAndNot(v, 1024) ELSE v

\* unpack_u16: two bytes of the word, read as '<H'
unpack_u16(word, pos) ==
    LET ubytes0 == BitAnd(ShiftRight(word, pos), 255)
        ubytes1 == BitAnd(ShiftRight(word, pos + 8), 255)
    IN  ubytes0 + 256 * ubytes1

\* struct.pack('<h', number): None stands for struct.error, raised unless
\* -32768 <= number <= 32767
struct_pack_h(number) ==
    IF -32768 <= number /\ number <= 32767
    THEN <<(number % 65536) % 256, (number % 65536) \div 256>>
    ELSE None

\* pack_u16: documented as little endian unsigned, packed with '<h'
pack_u16(number) == struct_pack_h(number)

\* str.strip() of a string of labels and spaces
RECURSIVE strip(_)
strip(s) ==
    IF s = "" THEN s
    ELSE IF SubSeq(s, 1, 1) = " " THEN strip(SubSeq(s, 2, Len(s)))
    ELSE IF SubSeq(s, Len(s), Len(s)) = " " THEN strip(SubSeq(s, 1, Len(s) - 1))
    ELSE s

\* the loop of flagm_s over descs from entry i on
RECURSIVE flagm_s_loop(_, _, _, _)
flagm_s_loop(flag, descs, i, s) ==
    IF i > Len(descs) THEN s
    ELSE flagm_s_loop(flag, descs, i + 1,
                      IF descs[i][1] = BitAnd(flag, descs[i][2])
                      THEN s \o descs[i][3] \o " "
                      ELSE s)

\* flagm_s(flag, descs): descs in the order the for loop meets its entries
flagm_s(flag, descs) == strip(flagm_s_loop(flag, descs, 1, ""))

\* unpack_s10g(word, pos) is called
unpack_s10g_call ==
    /\ pc = "unpack_s10g"
    /\ result' = unpack_s10g(arg.word, arg.pos)
    /\ pc' = "done"
    /\ UNCHANGED <<script, wire, out, echo, loc, printed, mark, ret, protver,
                   verbosity, read_only, sent, dispatched, completed, calls,
                   lastdec, arg, nvs, cfg_item, cfg_type, todo>>

\* unpack_s11g(word, pos) is called
unpack_s11g_call ==
    /\ pc = "unpack_s11g"
    /\ result' = unpack_s11g(arg.word, arg.pos)
    /\ pc' = "done"
    /\ UNCHANGED <<script, wire, out, echo, loc, printed, mark, ret, protver,
                   verbosity, read_only, sent, dispatched, completed, calls,
                   lastdec, arg, nvs, cfg_item, cfg_type, todo>>

\* offsets of the field in the word; the words of the model stay below 2^31
BitPositions == {0, 19}

\* every pattern of n bits at every offset, below zeros and under a zero
\* bit, or below ones and under a one
BitWords(n) ==
    {[word |-> hi * (2 ^ (p + n)) + r * (2 ^ p) + lo * ((2 ^ p) - 1),
      pos |-> p] :
        r \in 0..((2 ^ n) - 1), p \in BitPositions,
        hi \in {0, 1}, lo \in {0, 1}}

\* one call of unpack_s10g or of unpack_s11g
InitBits ==
    /\ \/ \E w \in BitWords(10) :
            InitCall([call |-> "unpack_s10g", word |-> w.word, pos |-> w.pos],
                     "unpack_s10g", <<>>, None)
       \/ \E w \in BitWords(11) :
            InitCall([call |-> "unpack_s11g", word |-> w.word, pos |-> w.pos],
                     "unpack_s11g", <<>>, None)
    /\ verbosity = VERB_NONE
    /\ read_only = FALSE

NextBits ==
    \/ unpack_s10g_call
    \/ unpack_s11g_call

SpecBits == InitBits /\ [][NextBits]_vars

\* mon_post_flags and tim_tp_flags, tuples of (value, mask, label)
mon_post_flags == <<<<0, 1, "active">>, <<1, 1, "inactive">>>>

tim_tp_flags ==
    <<<<0, 1, "timebase:GNSS">>, <<1, 1, "timebase:UTC">>,
      <<0, 2, "UTC:NA">>, <<2, 2, "UTC:OK">>,
      <<0, 12, "RAIM:NA">>, <<4, 12, "RAIM:inactive">>,
      <<8, 12, "RAIM:active">>, <<12, 12, "RAIM:Unk">>,
      <<0, 16, "qErr:Valid">>, <<16, 16, "qErr:Invalid">>,
      <<0, 32, "TP:Locked">>, <<32, 32, "TP:Unlocked">>>>

\* nav_pvt_flags as the source lists it.  It is written in braces: a
\* Python set, which a for loop meets in an order of its own.
nav_pvt_flags ==
    <<<<1, 1, "gnssFixOK,">>, <<2, 2, "diffSoln,">>,
      <<8, 8, "vehRollValid,">>, <<16, 16, "vehPitchValid,">>,
      <<32, 32, "vehHeadingValid,">>,
      <<0, 192, "No Carrier Phase solution,">>,
      <<64, 192, "Carrier Phase float,">>,
      <<128, 192, "Carrier Phase fixed,">>,
      <<192, 192, "Carrier Phase Unk,">>>>

\* the flag tables by name, with the width in bits of the flag they render
flag_tables ==
    [mon_post_flags |-> [descs |-> mon_post_flags, set |-> FALSE, bits |-> 2],
     tim_tp_flags |-> [descs |-> tim_tp_flags, set |-> FALSE, bits |-> 6],
     nav_pvt_flags |-> [descs |-> nav_pvt_flags, set |-> TRUE, bits |-> 8]]

\* the entries of descs that match flag, in the order of descs
Matching(flag, descs) ==
    SelectSeq(descs, LAMBDA d : d[1] = BitAnd(flag, d[2]))

\* every order of the elements of the sequence q
Orders(q) ==
    {[i \in 1..Len(q) |-> q[f[i]]] :
        f \in {g \in [1..Len(q) -> 1..Len(q)] :
                 \A i, j \in 1..Len(q) : i # j => g[i] # g[j]}}

\* the orders in which 'for val, mask, string in descs' can meet the
\* entries of a table: the order written for a tuple, any order for a set.
\* Entries that do not match add nothing, so of a set only the entries that
\* match are kept, in each of their orders.
IterationOrders(t, flag) ==
    IF flag_tables[t].set THEN Orders(Matching(flag, flag_tables[t].descs))
    ELSE {flag_tables[t].descs}

\* flagm_s(flag, descs) is called, twice
flagm_s_call ==
    /\ pc \in {"flagm_s", "flagm_s_again"}
    /\ result' = flagm_s(arg.flag, arg.descs)
    /\ pc' = IF pc = "flagm_s" THEN "flagm_s_again" ELSE "done"
    /\ UNCHANGED <<script, wire, out, echo, loc, printed, mark, ret, protver,
                   verbosity, read_only, sent, dispatched, completed, calls,
                   lastdec, arg, nvs, cfg_item, cfg_type, todo>>

\* two calls of flagm_s on one flag value and one table
InitFlags ==
    /\ \E t \in DOMAIN flag_tables :
         \E flag \in 0..((2 ^ flag_tables[t].bits) - 1) :
           \E descs \in IterationOrders(t, flag) :
             InitCall([call |-> "flagm_s", flag |-> flag, table |-> t,
                       descs |-> descs],
                      "flagm_s", <<>>, None)
    /\ verbosity = VERB_NONE
    /\ read_only = FALSE

NextFlags == flagm_s_call

SpecFlags == InitFlags /\ [][NextFlags]_vars

\* pack_u16(number) is called; struct.error ends the session
pack_u16_call ==
    /\ pc = "pack_u16"
    /\ result' = pack_u16(arg.number)
    /\ pc' = IF pack_u16(arg.number) = None THEN "raise" ELSE "unpack_u16"
    /\ UNCHANGED <<script, wire, out, echo, loc, printed, mark, ret, protver,
                   verbosity, read_only, sent, dispatched, completed, calls,
                   lastdec, arg, nvs, cfg_item, cfg_type, todo>>

\* unpack_u16(word, 0) is called on the integer the two bytes form
unpack_u16_call ==
    /\ pc = "unpack_u16"
    /\ result' = unpack_u16(result[1] + 256 * result[2], 0)
    /\ pc' = "done"
    /\ UNCHANGED <<script, wire, out, echo, loc, printed, mark, ret, protver,
                   verbosity, read_only, sent, dispatched, completed, calls,
                   lastdec, arg, nvs, cfg_item, cfg_type, todo>>

\* pack_u16 of every unsigned 16-bit number, then unpack_u16 of its result
InitPack ==
    /\ \E n \in 0..65535 :
         InitCall([call |-> "pack_u16", number |-> n], "pack_u16", <<>>, None)
    /\ verbosity = VERB_NONE
    /\ read_only = FALSE

NextPack ==
    \/ pack_u16_call
    \/ unpack_u16_call

SpecPack == InitPack /\ [][NextPack]_vars

----------------------------------------------------------------------------
\* Deprecated messages.

\* frames that set protver (MON-VER to 18.00 and to 32.01, CFG-VALGET to at
\* least 27, ESF-RAW to at least 15) and frames of entries with a 'depver':
\* polls of CFG-TMODE (13), CFG-PWR (17), CFG-TP5 (27), CFG-CFG (28) and
\* MON-IO (29), and AID-REQ (23), whose decoder runs on an empty payload
DepverItems ==
    {UbxItem(10, 4, MonVerPayload(Digits1800)),
     UbxItem(10, 4, MonVerPayload(Digits3201)),
     UbxItem(6, 139, <<1, 0, 0, 0>>),
     UbxItem(16, 3, <<0, 0, 0, 0>>),
     UbxItem(6, 29, <<>>),
     UbxItem(6, 87, <<>>),
     UbxItem(6, 49, <<>>),
     UbxItem(6, 9, <<>>),
     UbxItem(10, 2, <<>>),
     UbxItem(11, 0, <<>>),
     TextItem("junk", <<0>>)}

InitDepver ==
    InitWith(SeqUpTo(DepverItems, MaxItems), FALSE, {VERB_NONE}, {FALSE})

SpecDepver == InitDepver /\ [][Next]_vars

----------------------------------------------------------------------------
\* UBX-NAV-CLOCK and UBX-NAV2-CLOCK.

\* payloads of 20 and of 21 bytes, with one short of the minimum and a poll
ClockPayloads == {Fill(n, b) : n \in {0, 19, 20, 21}, b \in {0, 1, 127}}

\* one frame of either message, delivered in one or two reads
InitClock ==
    InitWith({<<UbxItem(c, 34, d)>> : c \in {1, 41}, d \in ClockPayloads},
             TRUE, {VERB_NONE, VERB_DECODE}, {FALSE})

SpecClock == InitClock /\ [][Next]_vars

----------------------------------------------------------------------------
\* Commands that send several frames.

\* the poll constants of class ubx that get_status uses, [class, id] each
ubx_poll ==
    [LOG_INFO |-> <<33, 8>>, MON_COMMS |-> <<10, 54>>,
     MON_GNSS |-> <<10, 40>>, MON_HW |-> <<10, 9>>, MON_HW2 |-> <<10, 11>>,
     MON_HW3 |-> <<10, 55>>, MON_IO |-> <<10, 2>>, MON_MSGPP |-> <<10, 6>>,
     MON_RF |-> <<10, 56>>, MON_RXBUF |-> <<10, 56>>, MON_SYS |-> <<10, 57>>,
     MON_TXBUF |-> <<10, 8>>, MON_VER |-> <<10, 4>>, NAV_SVIN |-> <<1, 59>>,
     TIM_SVIN |-> <<13, 4>>]

\* the list get_status builds before it sends anything
get_status_cmds(pv) ==
    <<ubx_poll.MON_VER, ubx_poll.LOG_INFO, ubx_poll.MON_GNSS>>
    \o (IF 2700 <= pv
        THEN <<ubx_poll.MON_COMMS, ubx_poll.MON_HW3, ubx_poll.MON_RF,
               ubx_poll.MON_SYS>>
        ELSE <<ubx_poll.MON_HW, ubx_poll.MON_HW2, ubx_poll.MON_IO,
               ubx_poll.MON_MSGPP, ubx_poll.MON_RF, ubx_poll.MON_RXBUF,
               ubx_poll.MON_TXBUF>>)
    \o <<ubx_poll.NAV_SVIN, ubx_poll.TIM_SVIN>>

\* the user gives the next command of the session
next_command ==
    /\ pc = "done"
    /\ todo # <<>>
    /\ arg' = Head(todo)
    /\ todo' = Tail(todo)
    /\ nvs' = IF Head(todo).call = "send_cfg_valset"
              THEN Head(todo).nvs ELSE <<>>
    /\ pc' = IF Head(todo).call = "send_cfg_valset"
             THEN "valset" ELSE Head(todo).call
    /\ UNCHANGED <<script, wire, out, echo, loc, printed, mark, ret, protver,
                   verbosity, read_only, sent, dispatched, completed, calls,
                   lastdec, cfg_item, cfg_type, result>>

\* send_poll(m_data): gps_send(m_data[0], m_data[1], m_data[2:])
send_poll_data(m_data) ==
    gps_send_raw(make_pkt(m_data[1], m_data[2],
                          SubSeq(m_data, 3, Len(m_data))))

send_poll ==
    /\ pc = "send_poll"
    /\ send_poll_data(arg.m_data)
    /\ UNCHANGED <<script, wire, loc, mark, ret, protver, verbosity,
                   read_only, dispatched, completed, calls, lastdec>>
    /\ UNCHANGED cfgvars

\* send_cmds(cmds) enters its loop
send_cmds ==
    /\ pc = "send_cmds"
    /\ nvs' = arg.cmds
    /\ pc' = "sending"
    /\ UNCHANGED <<script, wire, out, echo, loc, printed, mark, ret, protver,
                   verbosity, read_only, sent, dispatched, completed, calls,
                   lastdec, arg, cfg_item, cfg_type, result, todo>>

\* get_status builds its list and calls send_cmds
get_status ==
    /\ pc = "get_status"
    /\ nvs' = get_status_cmds(protver)
    /\ pc' = "sending"
    /\ UNCHANGED <<script, wire, out, echo, loc, printed, mark, ret, protver,
                   verbosity, read_only, sent, dispatched, completed, calls,
                   lastdec, arg, cfg_item, cfg_type, result, todo>>

\* where send_able_binary tests protver, between the frames it sends before
\* and the frames it sends after
Branch == <<>>

\* 'for cmd in cmds: self.send_poll(cmd)', and the like loops of gps_send
send_cmds_loop ==
    /\ pc = "sending"
    /\ nvs # <<>>
    /\ Head(nvs) # Branch
    /\ nvs' = Tail(nvs)
    /\ send_poll_data(Head(nvs))
    /\ UNCHANGED <<script, wire, loc, mark, ret, protver, verbosity,
                   read_only, dispatched, completed, calls, lastdec, arg,
                   cfg_item, cfg_type, result, todo>>

\* the loop has no entry left
send_cmds_return ==
    /\ pc = "sending"
    /\ nvs = <<>>
    /\ pc' = "done"
    /\ UNCHANGED <<script, wire, out, echo, loc, printed, mark, ret, protver,
                   verbosity, read_only, sent, dispatched, completed, calls,
                   lastdec, arg, nvs, cfg_item, cfg_type, result, todo>>

\* a session of commands, none given yet
InitCommands(sessions, verbs, ros) ==
    /\ script = <<>>
    /\ wire = <<>>
    /\ out = <<>>
    /\ pc = "done"
    /\ echo = FALSE
    /\ loc = Loc0
    /\ printed = <<>>
    /\ mark = 0
    /\ ret = 0
    /\ protver = DefaultProtver
    /\ verbosity \in verbs
    /\ read_only \in ros
    /\ sent = <<>>
    /\ dispatched = <<>>
    /\ completed = <<>>
    /\ calls = 0
    /\ lastdec = ""
    /\ arg = [call |-> ""]
    /\ nvs = <<>>
    /\ cfg_item = None
    /\ cfg_type = None
    /\ result = None
    /\ todo \in sessions

\* the poll of UBX-CFG-VALGET with version 1, which its echo decodes as an
\* answer of protVer 27
ValgetV1 == [call |-> "send_poll", m_data |-> <<6, 139, 1, 0, 0, 0>>]

\* get_status, alone or after a command whose echo can raise protver
InitStatus ==
    InitCommands({<<[call |-> "get_status"]>>,
                  <<ValgetV1, [call |-> "get_status"]>>,
                  <<[call |-> "send_cmds",
                     cmds |-> <<ubx_poll.MON_VER, ubx_poll.MON_RXBUF>>],
                    [call |-> "get_status"]>>},
                 {VERB_QUIET, VERB_NONE, VERB_DECODE}, BOOLEAN)

NextStatus ==
    \/ next_command
    \/ send_poll
    \/ send_cmds
    \/ get_status
    \/ send_cmds_loop
    \/ send_cmds_return
    \/ gps_send_raw_return
    \/ decode_msg_call
    \/ decode_msg_byte

SpecStatus == InitStatus /\ [][NextStatus]_vars

\* send_poll_cfg_esfalg(args): a poll, or a set of 12 bytes with
\* doAutoMntAlg in byte 1
send_poll_cfg_esfalg ==
    /\ pc = "send_poll_cfg_esfalg"
    /\ gps_send_raw(make_pkt(6, 86,
                             IF 0 < Len(arg.args)
                             THEN [Fill(12, 0) EXCEPT ![2] = arg.args[1]]
                             ELSE <<>>))
    /\ UNCHANGED <<script, wire, loc, mark, ret, protver, verbosity,
                   read_only, dispatched, completed, calls, lastdec>>
    /\ UNCHANGED cfgvars

\* the message ids of UBX-NAV that send_able_binary sets the rate of
ubx_nav_toggle == <<4, 32>>

ubx_14_nav_on == <<6, 48>>

ubx_15_nav_on == <<1, 7, 17, 53, 97>>

ubx_27_nav_on == <<67>>

ubx_nav_off == <<18, 50>>

\* gps_send(6, 1, m_data) for each id, m_data being [0x01, id, rate]
cfg_msg_each(ids, rate) == [i \in 1..Len(ids) |-> <<6, 1, 1, ids[i], rate>>]

\* send_able_binary(able): the frames sent before protver is tested
send_able_binary ==
    /\ pc = "send_able_binary"
    /\ nvs' = cfg_msg_each(ubx_nav_toggle, IF arg.able THEN 1 ELSE 0)
                \o <<Branch>>
    /\ pc' = "sending"
    /\ UNCHANGED <<script, wire, out, echo, loc, printed, mark, ret, protver,
                   verbosity, read_only, sent, dispatched, completed, calls,
                   lastdec, arg, cfg_item, cfg_type, result, todo>>

\* send_able_binary after 'if 15 > self.protver' with the branch not taken
\* into account: the frames of protver below 15 always
send_able_binary_rest_14(pv, rate) ==
    cfg_msg_each(ubx_14_nav_on, rate) \o cfg_msg_each(ubx_15_nav_on, 0)
    \o <<<<6, 1, 1, 38, 255>>>> \o cfg_msg_each(ubx_nav_off, 0)

\* what send_able_binary sends from 'if 15 > self.protver' on
send_able_binary_rest(pv, rate) ==
    (IF 1500 > pv
     THEN cfg_msg_each(ubx_14_nav_on, rate) \o cfg_msg_each(ubx_15_nav_on, 0)
     ELSE cfg_msg_each(ubx_15_nav_on, rate)
          \o (IF 2700 <= pv THEN cfg_msg_each(ubx_27_nav_on, rate) ELSE <<>>)
          \o cfg_msg_each(ubx_14_nav_on, 0))
    \o <<<<6, 1, 1, 38, 255>>>> \o cfg_msg_each(ubx_nav_off, 0)

\* send_able_binary reaches 'if 15 > self.protver'
send_able_binary_branch ==
    /\ pc = "sending"
    /\ nvs # <<>>
    /\ Head(nvs) = Branch
    /\ nvs' = send_able_binary_rest(protver, IF arg.able THEN 1 ELSE 0)
    /\ UNCHANGED <<script, wire, out, pc, echo, loc, printed, mark, ret,
                   protver, verbosity, read_only, sent, dispatched, completed,
                   calls, lastdec, arg, cfg_item, cfg_type, result, todo>>

\* Most commands of one session.
MaxCommands == 2

\* the commands of the sessions: the set and the poll of UBX-CFG-ESFALG,
\* BINARY enabled and disabled, send_cmds of two polls, the poll of
\* UBX-CFG-VALGET, get_status, send_cfg_valset of two items
Commands ==
    {[call |-> "send_poll_cfg_esfalg", args |-> <<1>>],
     [call |-> "send_poll_cfg_esfalg", args |-> <<>>],
     [call |-> "send_able_binary", able |-> TRUE],
     [call |-> "send_able_binary", able |-> FALSE],
     [call |-> "send_cmds", cmds |-> <<ubx_poll.MON_VER, ubx_poll.NAV_SVIN>>],
     ValgetV1,
     [call |-> "get_status"],
     [call |-> "send_cfg_valset",
      nvs |-> <<<<"CFG-NAVSPG-DYNMODEL", 4>>,
                <<"CFG-UART1-BAUDRATE", 9600, 1>>>>]}

InitCommandSessions ==
    InitCommands(SeqUpTo(Commands, MaxCommands),
                 {VERB_QUIET, VERB_NONE, VERB_DECODE}, BOOLEAN)

NextCommands ==
    \/ next_command
    \/ send_poll
    \/ send_poll_cfg_esfalg
    \/ send_cmds
    \/ get_status
    \/ send_able_binary
    \/ send_able_binary_branch
    \/ send_cmds_loop
    \/ send_cmds_return
    \/ send_cfg_valset
    \/ send_cfg_valset_return
    \/ gps_send_raw_return
    \/ decode_msg_call
    \/ decode_msg_byte

SpecCommands == InitCommandSessions /\ [][NextCommands]_vars

\* the items of streams in which a byte ends a frame that had only begun:
\* a lone 0xb5 and a lone 0xd3, each to be followed by another item; a
\* UBX-CFG-MSG poll, none of whose bytes starts or ends anything in BASE;
\* the UBX-MON-VER poll, whose class byte is LF; an NMEA line; a stray byte
AbortItems ==
    {TextItem("abort", <<181>>),
     TextItem("rtcm3_abort", <<211>>),
     UbxItem(6, 1, <<1, 7>>),
     UbxItem(10, 4, <<>>),
     TextItem("nmea", <<36, 71, 13, 10>>),
     TextItem("junk", <<0>>)}

\* streams of frames and of frame starts cut short, delivered whole
InitAbort ==
    InitWith(SeqUpTo(AbortItems, MaxItems), FALSE,
             {VERB_NONE, VERB_DECODE, VERB_RAW}, {FALSE})

SpecAbort == InitAbort /\ [][Next]_vars

----------------------------------------------------------------------------
\* Properties.

\* what the current decode_msg call has printed
ThisCall == SubSeq(printed, mark + 1, Len(printed))

\* the call has ended, by a return or by an exception
Ended == pc \in {"ret", "raise"}

Warned(p) == \E i \in 1..Len(p) : p[i].tag = "ERROR checksum failed"

Reports(p) == SelectSeq(p, LAMBDA x : x.tag = "report")

\* the tokens of the one report the call printed, or <<>>
Report == IF Len(Reports(ThisCall)) = 1 THEN Reports(ThisCall)[1].toks ELSE <<>>

HasTok(toks, t) == \E i \in 1..Len(toks) : toks[i] = t

\* the frame the session's first item was built from
Frame1 ==
    [m_class |-> script[1].m_class, m_id |-> script[1].m_id,
     m_payload |-> script[1].m_payload]

\* the session is one UBX frame, sent and echoed or delivered by the device
OneFrame == script # <<>> /\ script[1].kind \in {"cmd", "ubx_badck"}

\* C1: checksum round trip.  For every class, id and payload, the decode_msg
\* call that gps_send_raw makes on make_pkt(class, id, payload) prints no
\* 'checksum failed' message, reaches the catalog dispatch with exactly that
\* class, id and payload, and returns len(payload) + 8.
C1_RoundTrip ==
    (script # <<>> /\ script[1].kind = "cmd" /\ Ended) =>
        /\ pc = "ret"
        /\ ret = Len(script[1].m_payload) + 8
        /\ ~Warned(ThisCall)
        /\ dispatched = <<Frame1>>

\* the entry of the session's frame declares a minimum length above 0
HasMinlen ==
    /\ OneFrame
    /\ <<Frame1.m_class, Frame1.m_id>> \in CatalogPairs
    /\ "minlen" \in DOMAIN classes[Frame1.m_class].ids[Frame1.m_id]
    /\ classes[Frame1.m_class].ids[Frame1.m_id].minlen > 0

\* C2: for every catalog entry that declares a minimum length M > 0, a
\* complete frame of length 0 is rendered as the entry's name followed by
\* 'Poll request', one of length 0 < n < M as 'Bad Length n', and in both
\* cases the entry's decode routine is not invoked.
C2_PollOrBadLength ==
    LET this_id == classes[Frame1.m_class].ids[Frame1.m_id]
        n == Len(Frame1.m_payload)
    IN  (HasMinlen /\ Ended /\ n < this_id.minlen) =>
            /\ pc = "ret"
            /\ lastdec = ""
            /\ Report # <<>>
            /\ Report[1] = this_id.name
            /\ IF n = 0
               THEN Report[Len(Report)] = "  Poll request"
               ELSE /\ Report[Len(Report) - 1] = "  Bad Length "
                    /\ Report[Len(Report)] = ToString(n)

\* b5 62 0a 04 00 00 0e 34 has given 'UBX-MON-VER' and 'Poll request'
C2_Witness ==
    /\ pc = "ret"
    /\ out = <<181, 98, 10, 4, 0, 0, 14, 52>>
    /\ Report = <<"UBX-MON-VER", ":\n", "  Poll request">>
    /\ lastdec = ""

\* what was printed, without the lines that show the checksum received
NotCk(p) ==
    SelectSeq(p, LAMBDA x : x.tag \notin {"ERROR checksum failed", "chksum:"})

\* the call in progress has ended as the call 'good' did, but for the
\* checksum warning
SameButWarning(good) ==
    /\ Warned(ThisCall)
    /\ ~Warned(good.out)
    /\ NotCk(ThisCall) = NotCk(good.out)
    /\ pc = (IF good.done = "raise" THEN "raise" ELSE "ret")
    /\ good.done = "return" => ret = good.ret
    /\ protver = good.protver
    /\ dispatched = <<Frame1>>

\* C3: a checksum mismatch is not fatal.  A frame whose received checksum
\* bytes differ from the recomputed ones gets the checksum-failed warning,
\* and is then resolved and rendered exactly as the same frame with a
\* correct checksum, with the same value returned.
C3_BadChecksumNonFatal ==
    (script # <<>> /\ script[1].kind = "ubx_badck" /\ Ended) =>
        SameButWarning(decode_msg(make_pkt(Frame1.m_class, Frame1.m_id,
                                           Frame1.m_payload),
                                  DefaultProtver, verbosity))

\* the poll of UBX-MON-VER with its last byte changed to 0x00 has given the
\* warning and then 'Poll request'
C3_Witness ==
    /\ pc = "ret"
    /\ out = <<181, 98, 10, 4, 0, 0, 14, 0>>
    /\ ret = 8
    /\ ThisCall[1].tag = "ERROR checksum failed"
    /\ Report = <<"UBX-MON-VER", ":\n", "  Poll request">>

\* C4: every call of decode_msg completes at most one frame of any syntax,
\* and a nonzero return value equals the number of input bytes examined.
C4_OneFramePerCall ==
    /\ Len(completed) <= 1
    /\ (pc = "ret" /\ ret # 0) => ret = loc.consumed

\* the stream holds complete frames only
CompleteFrames ==
    \A i \in 1..Len(script) : script[i].kind \in {"ubx", "nmea", "json", "rtcm3"}

RECURSIVE UbxFrames(_)
UbxFrames(items) ==
    IF items = <<>> THEN <<>>
    ELSE (IF Head(items).kind = "ubx"
          THEN <<[m_class |-> Head(items).m_class, m_id |-> Head(items).m_id,
                  m_payload |-> Head(items).m_payload]>>
          ELSE <<>>) \o UbxFrames(Tail(items))

\* C5: caller-loop progress.  Once the buffer holds the rest of a stream of
\* complete frames, every call returns n > 0, and the loop ends with the
\* buffer empty and every UBX frame dispatched exactly once.
C5_CallerLoopProgress ==
    (CompleteFrames /\ wire = <<>>) =>
        /\ pc # "raise"
        /\ pc = "ret" => ret > 0
        /\ pc = "read" => (out = <<>> /\ dispatched = UbxFrames(script))

\* C6: when the input ends inside a frame, decode_msg returns 0 having
\* dispatched nothing, and the next call starts in BASE with empty class,
\* id, length and payload.
C6_TruncatedFrame ==
    [][/\ (pc = "loop" /\ loc.consumed = Len(out) /\ loc.state # "BASE") =>
              (pc' = "ret" /\ ret' = 0 /\ ~HasTok(completed', "ubx")
               /\ dispatched' = dispatched)
       /\ pc = "call" =>
              (loc'.state = "BASE" /\ loc'.m_class = 0 /\ loc'.m_id = 0
               /\ loc'.m_len = 0 /\ loc'.m_payload = <<>> /\ loc'.m_raw = <<>>
               /\ loc'.consumed = 0)]_vars

\* the second call begins on the whole UBX-MON-VER poll, after a first call
\* on a part of it returned 0
C6_Witness ==
    /\ calls = 2
    /\ pc = "loop"
    /\ loc.consumed = 0
    /\ loc.state = "BASE"
    /\ ret = 0
    /\ out = <<181, 98, 10, 4, 0, 0, 14, 52>>
    /\ dispatched = <<>>

\* C7: every complete frame whose class is not in the catalog, or whose id
\* is not in its class's table, with a payload of any length, gets a report
\* that contains 'Unknown message type' and the label 'xCC:xII' of its class
\* and id, and decode_msg returns the consumed count without raising.
C7_UnknownFallback ==
    (OneFrame /\ <<Frame1.m_class, Frame1.m_id>> \notin CatalogPairs /\ Ended) =>
        /\ pc = "ret"
        /\ ret = Len(Frame1.m_payload) + 8
        /\ HasTok(Report, ": Unknown message type\n")
        /\ HasTok(Report, HexLabel(Frame1.m_class, Frame1.m_id))

\* C8: for every (class, id) of the catalog, those of class 0xf0 and 0xf5
\* included, a correctly checksummed frame with an empty payload gets a
\* report and decode_msg returns the consumed count; it never raises.
C8_EveryEntryPolls ==
    (/\ script # <<>>
     /\ script[1].kind = "cmd"
     /\ <<Frame1.m_class, Frame1.m_id>> \in CatalogPairs
     /\ Frame1.m_payload = <<>>
     /\ Ended) =>
        /\ pc = "ret"
        /\ ret = 8
        /\ Report # <<>>

RECURSIVE Weighted(_, _, _)
Weighted(s, i, w) ==
    IF i > Len(s) THEN 0 ELSE w * s[i] + Weighted(s, i + 1, w - 1)

\* the sum of the elements from the i-th on
RECURSIVE SumFrom(_, _)
SumFrom(s, i) == IF i > Len(s) THEN 0 ELSE s[i] + SumFrom(s, i + 1)

\* C10: make_pkt(class, id, payload) is 0xb5, 0x62, class, id, the length of
\* the payload as 16 bits little endian, the payload unchanged, then ck_a
\* and ck_b; its length is len(payload) + 8.
C10_PacketLayout ==
    \A k \in 1..Len(sent) :
        LET p == sent[k]
            d == Frame1.m_payload
            n == Len(d)
            core == SubSeq(p, 3, n + 6)
        IN  /\ Len(p) = n + 8
            /\ SubSeq(p, 1, 4) = <<181, 98, Frame1.m_class, Frame1.m_id>>
            /\ p[5] = n % 256
            /\ p[6] = n \div 256
            /\ SubSeq(p, 7, n + 6) = d
            /\ p[n + 7] = SumFrom(core, 1) % 256
            /\ p[n + 8] = Weighted(core, 1, n + 4) % 256

\* UBX-CFG-VALGET with a payload of MaxPayload bytes has been written
C10_Witness ==
    /\ Len(sent) = 1
    /\ Len(sent[1]) = MaxPayload + 8
    /\ sent[1][3] = 6
    /\ sent[1][4] = 139
    /\ sent[1][5] = MaxPayload
    /\ sent[1][7] = 255

\* the two sums, each reduced mod 256 at every step, over s from the i-th
RECURSIVE Fletcher(_, _, _, _)
Fletcher(s, i, a, b) ==
    IF i > Len(s) THEN <<a, b>>
    ELSE Fletcher(s, i + 1, (a + s[i]) % 256, (b + ((a + s[i]) % 256)) % 256)

\* class, id, the two length bytes and the payload of a whole frame
Core(p) == SubSeq(p, 3, Len(p) - 2)

\* C11: checksum gives the two sums (ck_a += byte; ck_b += ck_a) reduced
\* mod 256, and make_pkt and decode_msg take it over class, id, the length
\* bytes and the payload only: every frame written ends in the sums over its
\* core, the framer has gathered exactly the core when the checksum bytes
\* arrive, and it warns if and only if the bytes received differ from the
\* sums over the core, naming those sums as what should be.
C11_ChecksumOverCore ==
    /\ \A k \in 1..Len(sent) :
           SubSeq(sent[k], Len(sent[k]) - 1, Len(sent[k]))
               = Fletcher(Core(sent[k]), 1, 0, 0)
    /\ (OneFrame /\ pc = "loop" /\ loc.state \in {"CSUM1", "CSUM2"}) =>
           loc.m_raw = Core(out)
    /\ (OneFrame /\ Ended) =>
           LET want == Fletcher(Core(out), 1, 0, 0)
               got == SubSeq(out, Len(out) - 1, Len(out))
           IN  /\ Warned(ThisCall) <=> got # want
               /\ \A i \in 1..Len(ThisCall) :
                      ThisCall[i].tag = "ERROR checksum failed" =>
                          ThisCall[i].bytes = got \o want

\* a frame whose sums pass 255 has been written and echoed without warning
C11_Witness ==
    /\ Len(sent) = 1
    /\ pc = "ret"
    /\ SumFrom(Core(sent[1]), 1) > 255
    /\ ~Warned(ThisCall)
    /\ dispatched = <<Frame1>>

\* the length a frame declares: low byte + 256 * high byte
Declared(p) == p[5] + 256 * p[6]

\* the state the framer is in after k bytes of a frame that declares n
StateAfter(k, n) ==
    CASE k = 0 -> "BASE"
      [] k = 1 -> "HEADER1"
      [] k = 2 -> "HEADER2"
      [] k = 3 -> "CLASS"
      [] k = 4 -> "ID"
      [] k = 5 -> "LEN1"
      [] k >= 6 /\ k < 6 + n -> "PAYLOAD"
      [] k = 6 + n -> "CSUM1"
      [] OTHER -> "CSUM2"

\* C12: on a UBX frame the framer takes one byte per state in the order
\* HEADER1, HEADER2, CLASS, ID, LEN1, then PAYLOAD exactly while bytes of a
\* nonzero declared length are outstanding, then CSUM1 and CSUM2; the
\* payload gathered so far is the frame's bytes from the seventh on, whatever
\* their values, and the frame dispatched carries the payload of the declared
\* length, the call returning at the frame's last byte.
C12_UbxStateOrder ==
    /\ (OneFrame /\ pc = "loop" /\ loc.consumed >= 6) =>
           /\ loc.state = StateAfter(loc.consumed, Declared(out))
           /\ loc.m_len = Declared(out)
           /\ loc.m_payload
                  = SubSeq(out, 7, Min(loc.consumed, 6 + Declared(out)))
    /\ (OneFrame /\ pc = "loop" /\ loc.consumed < 6) =>
           /\ loc.state = StateAfter(loc.consumed, 0)
           /\ loc.m_payload = <<>>
    /\ (OneFrame /\ Ended) =>
           /\ loc.consumed = Len(out)
           /\ dispatched = <<Frame1>>
           /\ Len(dispatched[1].m_payload) = Declared(out)
           /\ dispatched[1].m_payload = SubSeq(out, 7, Len(out) - 2)
           /\ completed = <<"ubx">>

\* a frame whose payload is the framing bytes has been dispatched whole
C12_Witness ==
    /\ OneFrame
    /\ pc = "ret"
    /\ ret = Len(FramingBytes) + 8
    /\ dispatched = <<Frame1>>
    /\ dispatched[1].m_payload = FramingBytes
    /\ printed # <<>>

\* what was printed, without the VERB_RAW trace of each byte
Untraced(p) == SelectSeq(p, LAMBDA x : x.tag # "state:")

\* the loop is about to take a byte other than 'b' right after a 0xb5
Aborting ==
    /\ pc = "loop"
    /\ loc.state = "HEADER1"
    /\ loc.consumed < Len(out)
    /\ out[loc.consumed + 1] # 98

\* C13 as stated: after a 0xb5 in BASE, a byte other than 0x62 takes the
\* framer back to BASE with nothing printed, no exception and no frame
\* dispatched.
C13_AbortSilent ==
    [][Aborting =>
          /\ pc' = "loop"
          /\ loc'.state = "BASE"
          /\ loc'.consumed = loc.consumed + 1
          /\ printed' = printed
          /\ dispatched' = dispatched
          /\ completed' = completed]_vars

\* C13: after a 0xb5 in BASE, a byte other than 0x62 takes the framer back
\* to BASE with no exception, no frame dispatched or completed, and nothing
\* printed but the trace line of the byte, which VERB_RAW prints for every
\* byte.
C13_AbortSilentButTrace ==
    [][Aborting =>
          /\ pc' = "loop"
          /\ loc'.state = "BASE"
          /\ loc'.consumed = loc.consumed + 1
          /\ Untraced(printed') = Untraced(printed)
          /\ Len(printed') = Len(printed) + (IF VERB_RAW <= verbosity THEN 1 ELSE 0)
          /\ dispatched' = dispatched
          /\ completed' = completed]_vars

\* a 0xb5 and a second 0xb5 have been taken, and the framer is in BASE
C13_Witness ==
    /\ script # <<>>
    /\ script[1].bytes = <<181, 181>>
    /\ pc = "loop"
    /\ calls = 1
    /\ loc.consumed = 2
    /\ loc.state = "BASE"

\* the stream is a '$' line ended by CR LF, then one UBX frame
NmeaThenUbx ==
    /\ Len(script) = 2
    /\ script[1].kind = "nmea"
    /\ script[2].kind = "ubx"

\* the line of the first item up to its CR, which is its last byte but one
NmeaLine == SubSeq(script[1].bytes, 1, Len(script[1].bytes) - 2)

Frame2 ==
    [m_class |-> script[2].m_class, m_id |-> script[2].m_id,
     m_payload |-> script[2].m_payload]

\* what the k-th call of such a stream must have done when it returns
NmeaCall(k) ==
    CASE k = 1 ->
           /\ out = Flatten(script)
           /\ ret = Len(NmeaLine) + 1
           /\ Untraced(ThisCall)
                  = IF VERB_DECODE <= verbosity
                    THEN <<Pr("comment", <<>>, NmeaLine)>> ELSE <<>>
           /\ NmeaLine[1] = 36
           /\ dispatched = <<>>
      [] k = 2 ->
           /\ out = <<10>> \o script[2].bytes
           /\ ret = 1
           /\ Untraced(ThisCall) = <<>>
           /\ dispatched = <<>>
      [] k = 3 ->
           /\ out = script[2].bytes
           /\ ret = Len(script[2].bytes)
           /\ dispatched = <<Frame2>>
           /\ ~Warned(ThisCall)
      [] OTHER -> FALSE

\* C14: for a '$' line ended by CR LF followed by a complete UBX frame, the
\* calls of decode_msg, each on what the one before left, return first the
\* length of the line through its CR (having printed the line, which starts
\* with '$', if and only if verbosity is at least VERB_DECODE), then 1 for
\* the LF, then the length of the UBX frame, which is dispatched whole;
\* no call raises and no text call takes a byte of the frame.
C14_NmeaPassthrough ==
    NmeaThenUbx =>
        /\ pc # "raise"
        /\ calls <= 3
        /\ pc = "ret" => NmeaCall(calls)

\* the third call has returned with the frame dispatched
C14_Witness ==
    /\ NmeaThenUbx
    /\ pc = "ret"
    /\ calls = 3
    /\ dispatched = <<Frame2>>
    /\ VERB_DECODE <= verbosity
    /\ \E i \in 1..Len(printed) : printed[i] = Pr("comment", <<>>, NmeaLine)

\* the 10-bit length an RTCM3 frame declares in its second and third bytes
RtcmLength(b) == (b[2] % 4) * 256 + b[3]

\* the first call is within a first item that starts with 0xd3
InRtcm ==
    /\ script # <<>>
    /\ script[1].kind \in {"rtcm3", "rtcm3_abort"}
    /\ calls = 1
    /\ pc \in {"loop", "ret", "raise"}
    /\ loc.consumed <= Len(script[1].bytes)

\* the framer after k bytes of the RTCM3 frame b
RtcmAfter(b, k) ==
    CASE k = 0 -> loc.state = "BASE"
      [] k = 1 -> loc.state = "RTCM3_1"
      [] k = 2 /\ b[2] \div 4 # 0 -> loc.state = "BASE"
      [] k = 2 /\ b[2] \div 4 = 0 -> loc.state = "RTCM3_2"
      [] k >= 3 /\ k < RtcmLength(b) + 6 ->
           /\ loc.state = "RTCM3_PAYLOAD"
           /\ loc.m_len = RtcmLength(b) + 6 - k
           /\ completed = <<>>
      [] OTHER ->
           /\ k = RtcmLength(b) + 6
           /\ k = Len(b)
           /\ loc.state = "BASE"
           /\ completed = <<"rtcm3">>

\* C15: after a 0xd3 in BASE, a next byte with any of its high 6 bits set
\* takes the framer back to BASE; otherwise its low 2 bits and the byte
\* after it are a 10-bit length L, the framer takes exactly L + 3 further
\* bytes and is then in BASE, having returned nothing, raised nothing,
\* dispatched nothing to the catalog and printed no checksum warning,
\* although the last three bytes are not a checksum of the frame.
C15_Rtcm3Framing ==
    InRtcm =>
        /\ pc # "raise"
        /\ pc = "ret" => (ret = 0 /\ loc.consumed = Len(out))
        /\ RtcmAfter(script[1].bytes, loc.consumed)
        /\ dispatched = <<>>
        /\ \A i \in 1..Len(printed) :
               printed[i].tag \in {"state:", "RTCM3 packet: type"}

\* a frame that needs the high bits of the length has been taken whole
C15_Witness ==
    /\ InRtcm
    /\ script[1].kind = "rtcm3"
    /\ RtcmLength(script[1].bytes) = MaxRtcm
    /\ loc.consumed = MaxRtcm + 6
    /\ loc.state = "BASE"
    /\ completed = <<"rtcm3">>
    /\ Len(script) = 2

\* a second byte with a high bit set has sent the framer back to BASE
C15_WitnessAbort ==
    /\ InRtcm
    /\ script[1].kind = "rtcm3_abort"
    /\ loc.consumed = 2
    /\ loc.state = "BASE"

\* the loop is about to take the CR or LF that ends a '{' or '#' line
LineEnding ==
    /\ pc = "loop"
    /\ loc.state \in {"JSON", "COMMENT"}
    /\ loc.consumed < Len(out)
    /\ IsEOL(out[loc.consumed + 1])

\* the line gathered so far is the input from a '{' or '#' to the last byte
\* taken
LineOfInput ==
    \E k \in 1..loc.consumed :
        /\ out[k] \in {123, 35}
        /\ loc.comment = SubSeq(out, k, loc.consumed)

\* C16: at the CR or LF that ends a line starting with '{' or '#', the line
\* is printed if and only if it contains {"class":"ERROR" or verbosity is at
\* least VERB_DECODE; either way the call returns the number of bytes it
\* has taken, the terminator included, and a line that is not printed adds
\* nothing at all to the output.
C16_LinePrinting ==
    [][LineEnding =>
          /\ LineOfInput
          /\ pc' = "ret"
          /\ ret' = loc.consumed + 1
          /\ Untraced(printed')
                 = Untraced(printed)
                   \o (IF Contains(loc.comment, ERROR_MARK)
                          \/ VERB_DECODE <= verbosity
                       THEN <<Pr("comment", <<>>, loc.comment)>> ELSE <<>>)
          /\ (~Contains(loc.comment, ERROR_MARK) /\ verbosity < VERB_DECODE)
                 => printed' = printed]_vars

\* a '#' line with the error text has been printed below VERB_DECODE
C16_Witness ==
    /\ pc = "ret"
    /\ verbosity = VERB_NONE
    /\ ret = Len(ERROR_MARK) + 2
    /\ ThisCall = <<Pr("comment", <<>>, <<35>> \o ERROR_MARK)>>

\* a line without the error text has been dropped below VERB_DECODE
C16_WitnessSuppressed ==
    /\ pc = "ret"
    /\ verbosity = VERB_NONE
    /\ script # <<>>
    /\ script[1].bytes = <<123, 125, 10>>
    /\ calls = 1
    /\ ret = 3
    /\ printed = <<>>

\* C17: key/name duality.  For every item of the table, looking up its name
\* and then the key of what was found gives an item of that name; and no
\* other item of the table has its key, and no other has its name.
C17_KeyNameDuality ==
    /\ (arg.call = "cfg_by_name" /\ pc \in {"item_to_type", "done"}
            /\ cfg_item # None) =>
           cfg_item[1] = arg.name
    /\ arg.call = "item_to_type" =>
           /\ Places(1, cfgs[arg.item][1]) = {arg.item}
           /\ Places(2, cfgs[arg.item][2]) = {arg.item}

\* C18: for a key that is not in the table, cfg_by_key returns the item
\* named 'CFG-<G>-<key & 0xfff>', G being the label of group
\* (key >> 16) & 0xff or the group in decimal, with the key, the type tag of
\* size class (key >> 28) & 7, scale 1 and description 'Unknown'; a second
\* call returns an equal item; for key 0x12345678 the size class is 1 and
\* the name starts with 'CFG-'.
C18_UnknownKeyFallback ==
    [][(pc = "cfg_by_key" /\ arg.call = "cfg_by_key"
            /\ Places(2, arg.key) = {}) =>
          /\ cfg_item'[1]
                 = "CFG-"
                   \o (IF (arg.key \div 65536) % 256 \in DOMAIN cfg_by_key_group
                       THEN cfg_by_key_group[(arg.key \div 65536) % 256]
                       ELSE ToString((arg.key \div 65536) % 256))
                   \o "-" \o ToString(arg.key % 4096)
          /\ cfg_item'[2] = arg.key
          /\ cfg_item'[3] = cfg_by_key_kmap[(arg.key \div 268435456) % 8]
          /\ cfg_item'[4] = 1
          /\ cfg_item'[6] = "Unknown"
          /\ Len(cfg_item') = 6
          /\ cfg_item # None => cfg_item' = cfg_item
          /\ arg.key = 305419896 =>
                 /\ (arg.key \div 268435456) % 8 = 1
                 /\ SubSeq(cfg_item'[1], 1, 4) = "CFG-"]_vars

\* key 0x12345678 has been looked up twice
C18_Witness ==
    /\ arg.call = "cfg_by_key"
    /\ arg.key = 305419896
    /\ pc = "item_to_type"
    /\ cfg_type # None
    /\ cfg_item = <<"CFG-BDS-1656", 305419896, "L", 1, "Unk", "Unknown">>

\* the width in bytes that size classes 1..5 of a key prescribe
ClassWidth == (1 :> 1) @@ (2 :> 1) @@ (3 :> 2) @@ (4 :> 4) @@ (5 :> 8)

\* C19: whenever item_to_type has been called, on an item of the table or
\* on an item cfg_by_key built, the triple it returned holds a size that is
\* the number of bytes its format encodes, a kind u, i or f, and, when bits
\* 28-30 of the item's key are 1..5, the width that class prescribes.
C19_TypeTriple ==
    (cfg_type # None) =>
        /\ Len(cfg_type) = 3
        /\ cfg_type[1] = calcsize(cfg_type[2])
        /\ cfg_type[3] \in {"u", "i", "f"}
        /\ key_size(cfg_item[2]) \in 1..5 =>
               cfg_type[1] = ClassWidth[key_size(cfg_item[2])]

\* entry k of the list given to send_cfg_valset is the first whose name is
\* not in the table, and the entries before it can be sent
FirstUnknown(k) ==
    /\ arg.call = "send_cfg_valset"
    /\ k \in 1..Len(arg.nvs)
    /\ Len(arg.nvs[k]) >= 2
    /\ cfg_by_name(arg.nvs[k][1]) = None
    /\ \A j \in 1..(k - 1) : ~valset_fails(arg.nvs[j])

\* the frames written are CFG-VALSET frames for the first entries of the
\* list, one each, in order
FramesOfEntries ==
    /\ Len(sent) <= Len(arg.nvs)
    /\ \A j \in 1..Len(sent) :
           /\ SubSeq(sent[j], 1, 4) = <<181, 98, 6, 138>>
           /\ SubSeq(sent[j], 11, 14)
                  = LittleEndian(cfg_by_name(arg.nvs[j][1])[2], 4)
           /\ sent[j][15] = arg.nvs[j][2] % 256

\* cfg_by_name of a name that is not in the table returns None
NoneForUnknown ==
    (arg.call = "cfg_by_name" /\ Places(1, arg.name) = {}) =>
        /\ pc \in {"cfg_by_name", "done"}
        /\ pc = "done" => cfg_item = None

\* C20 as stated: cfg_by_name returns None for a name that is not in the
\* table, and send_cfg_valset, given a list whose k-th entry has such a
\* name, never returns, never writes a frame for that or a later entry, and
\* has written one frame for each of the k - 1 entries before it when it
\* fails at the k-th.
C20_UnknownNameFails ==
    /\ NoneForUnknown
    /\ \A k \in 1..MaxNvs + 1 :
           FirstUnknown(k) =>
               /\ pc # "done"
               /\ Len(sent) <= k - 1
               /\ Len(arg.nvs) - Len(nvs) <= k
               /\ FramesOfEntries
               /\ pc = "raise" =>
                      /\ Len(sent) = k - 1
                      /\ Len(arg.nvs) - Len(nvs) = k

\* C20: the same, the frames being written only while read_only is clear;
\* while it is set no frame is written at all.
C20_UnknownNameFailsWritable ==
    /\ NoneForUnknown
    /\ \A k \in 1..MaxNvs + 1 :
           FirstUnknown(k) =>
               /\ pc # "done"
               /\ Len(sent) <= k - 1
               /\ Len(arg.nvs) - Len(nvs) <= k
               /\ FramesOfEntries
               /\ pc = "raise" =>
                      /\ Len(sent) = IF read_only THEN 0 ELSE k - 1
                      /\ Len(arg.nvs) - Len(nvs) = k

\* the call has failed at its third entry, after two frames, with the
\* entries echoed
C20_Witness ==
    /\ FirstUnknown(3)
    /\ pc = "raise"
    /\ Len(sent) = 2
    /\ Len(ThisCall) > 0
    /\ cfg_item = None

\* the session is one UBX-RXM-SFRBX frame, all of it now read
SfrbxFrame ==
    /\ script # <<>> /\ script[1].kind = "ubx"
    /\ Frame1.m_class = 2 /\ Frame1.m_id = 19
    /\ wire = <<>>

\* the payload is of version 1 or 2 and is not 8 + 4 * numWords long, or it
\* is a GPS or QZSS payload without words, or an LNAV subframe 1, 2 or 3
\* with fewer than 10 words
ShortOfWords(buf) ==
    /\ buf[7] \in {1, 2}
    /\ \/ Len(buf) # 8 + 4 * buf[5]
       \/ buf[1] \in {0, 5} /\ buf[5] = 0
       \/ /\ buf[1] \in {0, 5}
          /\ 2 <= buf[5] /\ buf[5] < 10
          /\ word_byte(buf, 0, 3) # 139
          /\ word_byte(buf, 1, 1) % 8 \in {1, 2, 3}

\* the last token is a warning or an error
EndsInWarning(toks) ==
    /\ toks # <<>>
    /\ \E n \in 1..2 :
         /\ n <= Len(toks)
         /\ LET t == toks[Len(toks) + 1 - n]
            IN  \E w \in {"    WARNING: ", "    ERROR: "} :
                  Len(t) >= Len(w) /\ SubSeq(t, 1, Len(w)) = w

\* C21: rxm_sfrbx checks the word count before any bit-level decode: a
\* payload whose length differs from 8 + 4 * numWords, or whose word count
\* is smaller than the constellation branch indexes, yields a report ending
\* in an explicit warning or error string, and the call never raises.
C21_SfrbxWordCount ==
    (SfrbxFrame /\ Ended) =>
        /\ pc # "raise"
        /\ ShortOfWords(Frame1.m_payload) => EndsInWarning(Report)

\* the sign-magnitude encoding of v, the sign bit being sign
SignMagnitude(v, sign) == IF v < 0 THEN sign + (0 - v) ELSE v

\* the sign bit of the field the call about to run decodes
SignBit == IF pc = "unpack_s10g" THEN 512 ELSE 1024

\* the bits of that field in the word
RawField == (arg.word \div (2 ^ arg.pos)) % (2 * SignBit)

\* C22 as stated: unpack_s10g and unpack_s11g return r when the sign bit
\* of the pattern r is clear and -(r & ~signbit) when it is set, so the
\* encoding of every v with |v| < 2^(N-1) decodes to v; and the pattern that
\* is the sign bit alone gives a sentinel, not the 0 of the general rule.
C22_SignBitSentinel ==
    [][(pc \in {"unpack_s10g", "unpack_s11g"}) =>
          /\ RawField # SignBit =>
                result' = IF RawField < SignBit THEN RawField
                          ELSE 0 - (RawField - SignBit)
          /\ \A v \in (1 - SignBit)..(SignBit - 1) :
                RawField = SignMagnitude(v, SignBit) => result' = v
          /\ RawField = SignBit => result' # 0]_vars

\* C22: unpack_s10g and unpack_s11g return r when the sign bit of the
\* pattern r at offset pos is clear and -(r & ~signbit) when it is set, so
\* the sign-magnitude encoding of every v with |v| < 2^(N-1) decodes to v;
\* the pattern that is the sign bit alone follows the same rule and gives 0.
C22_SignMagnitude ==
    [][(pc \in {"unpack_s10g", "unpack_s11g"}) =>
          /\ result' = IF RawField < SignBit THEN RawField
                       ELSE 0 - (RawField - SignBit)
          /\ \A v \in (1 - SignBit)..(SignBit - 1) :
                RawField = SignMagnitude(v, SignBit) => result' = v
          /\ RawField = SignBit => result' = 0]_vars

\* 1000101010 at offset 19, among other bits, has been decoded as -42
C22_Witness ==
    /\ arg.call = "unpack_s10g"
    /\ arg.pos = 19
    /\ arg.word = 554 * (2 ^ 19) + (2 ^ 19) - 1 + (2 ^ 29)
    /\ pc = "done"
    /\ result = 0 - 42

\* labels joined by single spaces
RECURSIVE JoinLabels(_)
JoinLabels(q) ==
    IF q = <<>> THEN ""
    ELSE IF Len(q) = 1 THEN q[1][3]
    ELSE q[1][3] \o " " \o JoinLabels(Tail(q))

\* C23: flagm_s(value, table) returns, space-separated and in table order,
\* the label of every (match, mask, label) triple with
\* (value & mask) == match, all of them and no other label, and returns the
\* identical string when called again with the same arguments.
C23_FlagmTableOrder ==
    [][(pc \in {"flagm_s", "flagm_s_again"}) =>
          /\ result' = JoinLabels(Matching(arg.flag,
                                           flag_tables[arg.table].descs))
          /\ pc = "flagm_s_again" => result' = result]_vars

\* C24: pack_u16(n) returns the 2-byte little-endian unsigned encoding of n
\* for every n in 0..65535, and unpack_u16 at offset 0 of the integer formed
\* from those bytes returns n.
C24_PackU16RoundTrip ==
    [][/\ (pc = "pack_u16") =>
            /\ pc' # "raise"
            /\ result' = <<arg.number % 256, arg.number \div 256>>
       /\ (pc = "unpack_u16") => result' = arg.number]_vars

\* the catalog entry of the frame f has a 'depver'
HasDepver(f) ==
    /\ <<f.m_class, f.m_id>> \in CatalogPairs
    /\ "depver" \in DOMAIN classes[f.m_class].ids[f.m_id]

\* C25: the report of a frame whose catalog entry has a 'depver' value D
\* carries the 'deprecated' WARNING line if and only if protver >= D when
\* the frame completes, before its own decoder runs; what was printed for
\* earlier frames is never changed.
C25_DeprecatedWarning ==
    [][/\ SubSeq(printed', 1, Len(printed)) = printed
       /\ (Len(dispatched') = Len(dispatched) + 1) =>
            LET f == dispatched'[Len(dispatched')]
                new == Reports(SubSeq(printed', Len(printed) + 1,
                                      Len(printed')))
            IN  /\ Len(new) = 1
                /\ HasTok(new[1].toks, "WARNING:  protVer is, deprecated")
                     <=> (/\ HasDepver(f)
                          /\ classes[f.m_class].ids[f.m_id].depver
                               <= protver)]_vars

\* CFG-VALGET has raised protver to 27, and the poll of UBX-CFG-TP5,
\* deprecated in 27, that followed it carries the warning
C25_Witness ==
    /\ Len(script) = 2
    /\ script[1] = UbxItem(6, 139, <<1, 0, 0, 0>>)
    /\ script[2] = UbxItem(6, 49, <<>>)
    /\ protver = 2700
    /\ pc = "ret"
    /\ Len(dispatched) = 2
    /\ Report = <<"UBX-CFG-TP5", ":\n", "WARNING:  protVer is, deprecated",
                  "  Poll request">>

\* C26: a UBX-NAV2-CLOCK frame (class 0x29, id 0x22) with a payload of at
\* least 20 bytes is reported under the name UBX-NAV2-CLOCK with the body
\* that decoding the payload as UBX-NAV-CLOCK (class 0x01, id 0x22) gives,
\* and the call does not raise.
C26_Nav2ClockAsNavClock ==
    (/\ script # <<>> /\ script[1].kind = "ubx"
     /\ Frame1.m_class = 41 /\ Frame1.m_id = 34
     /\ Len(Frame1.m_payload) >= 20
     /\ wire = <<>> /\ Ended) =>
        /\ pc = "ret"
        /\ Report = <<"UBX-NAV2-CLOCK", ":\n">>
                        \o nav_clock(Frame1.m_payload, protver, verbosity).s

\* the (class, id) under which the catalog registers the message name
PairOf(name) ==
    CHOOSE p \in CatalogPairs :
        /\ "name" \in DOMAIN classes[p[1]].ids[p[2]]
        /\ classes[p[1]].ids[p[2]].name = name

\* the messages get_status is to poll, by name, for a protocol version
StatusNames(pv) ==
    <<"UBX-MON-VER", "UBX-LOG-INFO", "UBX-MON-GNSS">>
    \o (IF pv >= 2700
        THEN <<"UBX-MON-COMMS", "UBX-MON-HW3", "UBX-MON-RF", "UBX-MON-SYS">>
        ELSE <<"UBX-MON-HW", "UBX-MON-HW2", "UBX-MON-IO", "UBX-MON-MSGPP",
               "UBX-MON-RF", "UBX-MON-RXBUF", "UBX-MON-TXBUF">>)
    \o <<"UBX-NAV-SVIN", "UBX-TIM-SVIN">>

\* the frames the command in progress has written: those after the frames
\* of the commands before it
SentBy(before) == SubSeq(sent, before + 1, Len(sent))

\* get_status, the last command of a session that may write, has returned
StatusDone ==
    /\ arg.call = "get_status"
    /\ pc = "done"
    /\ ~read_only

\* C27: get_status writes zero-length poll frames, in this order, for
\* UBX-MON-VER, UBX-LOG-INFO, UBX-MON-GNSS, then for MON-COMMS, MON-HW3,
\* MON-RF, MON-SYS when protver >= 27 and otherwise for MON-HW, MON-HW2,
\* MON-IO, MON-MSGPP, MON-RF, MON-RXBUF, MON-TXBUF, then for UBX-NAV-SVIN
\* and UBX-TIM-SVIN; each frame's (class, id) is the pair under which the
\* catalog registers the named message, and no message is polled twice.
C27_StatusPolls ==
    StatusDone =>
        LET names == StatusNames(protver)
            polls == SentBy(Len(sent) - Len(names))
        IN  /\ Len(sent) >= Len(names)
            /\ \A i \in 1..Len(names) :
                 polls[i] = make_pkt(PairOf(names[i])[1], PairOf(names[i])[2],
                                     <<>>)
            /\ \A i, j \in 1..Len(names) : i # j => polls[i] # polls[j]

\* the UBX-CFG-MSG frames that set the rates of UBX-NAV messages, each
\* given as (message id, rate)
RateFrames(rates) ==
    [i \in 1..Len(rates) |-> make_pkt(6, 1, <<1, rates[i][1], rates[i][2]>>)]

\* what a session that sets UBX-CFG-ESFALG and then enables BINARY writes
\* when the receiver is taken to be of protver 15 or later, or earlier
EsfalgBinaryFrames(later) ==
    <<make_pkt(6, 86, <<0, 1, 0, 0, 0, 0, 0, 0, 0, 0, 0, 0>>)>>
    \o RateFrames(<<<<4, 1>>, <<32, 1>>>>)
    \o RateFrames(IF later
                  THEN <<<<1, 1>>, <<7, 1>>, <<17, 1>>, <<53, 1>>, <<97, 1>>,
                         <<6, 0>>, <<48, 0>>>>
                  ELSE <<<<6, 1>>, <<48, 1>>, <<1, 0>>, <<7, 0>>, <<17, 0>>,
                         <<53, 0>>, <<97, 0>>>>)
    \o RateFrames(<<<<38, 255>>, <<18, 0>>, <<50, 0>>>>)

\* the session that set UBX-CFG-ESFALG and then enabled BINARY, writing
\* thirteen frames in all, has ended
EsfalgBinaryDone ==
    /\ arg = [call |-> "send_able_binary", able |-> TRUE]
    /\ pc = "done"
    /\ todo = <<>>
    /\ ~read_only
    /\ Len(sent) = 13
    /\ sent[1] = make_pkt(6, 86, <<0, 1, 0, 0, 0, 0, 0, 0, 0, 0, 0, 0>>)

\* C28: commands change protver only through the echo decode of
\* gps_send_raw, which runs only when read_only is clear and verbosity is
\* above VERB_QUIET; so with verbosity at VERB_QUIET no command changes
\* protver, and two runs of the same commands that differ only in verbosity
\* write different frames: after a 12-byte set of UBX-CFG-ESFALG, enabling
\* BINARY writes the frames of protver 15 and later when the echo ran and
\* those of earlier versions when it did not.
C28_ProtverByEchoOnly ==
    [][/\ protver' # protver =>
            /\ echo
            /\ pc = "loop"
            /\ ~read_only
            /\ VERB_QUIET < verbosity
       /\ verbosity = VERB_QUIET => protver' = DefaultProtver
       /\ EsfalgBinaryDone' =>
            sent' = EsfalgBinaryFrames(VERB_QUIET < verbosity)]_vars

\* with verbosity above VERB_QUIET the echo of the ESFALG set raised
\* protver to 15, and BINARY was enabled with the frames of protver 15
C28_Witness ==
    /\ EsfalgBinaryDone
    /\ verbosity = VERB_NONE
    /\ protver = 1500
    /\ sent = EsfalgBinaryFrames(TRUE)
    /\ sent # EsfalgBinaryFrames(FALSE)

\* the loop is about to look at a byte that ends HEADER1 or RTCM3_1
AbortingByte ==
    /\ pc = "loop"
    /\ loc.consumed < Len(out)
    /\ \/ loc.state = "HEADER1" /\ out[loc.consumed + 1] # 98
       \/ loc.state = "RTCM3_1" /\ out[loc.consumed + 1] \div 4 # 0

\* the valid UBX frames of the streams
AbortFrames == {it.bytes : it \in {i \in AbortItems : i.kind = "ubx"}}

\* the call runs on a start byte followed by a whole valid UBX frame, and has
\* not gone past that frame
OnAbortedStart ==
    /\ pc \in {"loop", "ret", "raise"}
    /\ \E start \in {181, 211}, F \in AbortFrames :
           /\ Len(out) >= 1 + Len(F)
           /\ SubSeq(out, 1, 1 + Len(F)) = <<start>> \o F
           /\ loc.consumed <= 1 + Len(F)

\* C29: the byte that ends HEADER1 (any byte but 0x62 after 0xb5) or
\* RTCM3_1 (a byte with one of its six high bits set after 0xd3) is
\* consumed and the loop is in BASE for the next byte: it is not looked at
\* as the start of a frame, even when it is 0xb5 or 0xd3, and no frame is
\* dispatched for it.  So a call whose input is 0xb5 (or 0xd3)
\* followed by a whole valid UBX frame dispatches no frame while it consumes
\* those bytes: the frame that begins at the second byte is lost to it.
C29_AbortByteDiscarded ==
    [][/\ AbortingByte /\ loc' # loc =>
            /\ loc'.state = "BASE"
            /\ loc'.consumed = loc.consumed + 1
            /\ pc' = "loop"
            /\ dispatched' = dispatched
            /\ completed' = completed
       /\ OnAbortedStart' => completed' = <<>>]_vars

\* the input b5 b5 62 06 01 02 00 01 07 11 3a was consumed to its end by
\* one call, which dispatched nothing
C29_Witness ==
    /\ out = <<181>> \o make_pkt(6, 1, <<1, 7>>)
    /\ pc = "ret"
    /\ calls = 1
    /\ loc.consumed = Len(out)
    /\ loc.state = "BASE"
    /\ ret = 0
    /\ dispatched = <<>>

\* the command is about to call gps_send
GpsSending ==
    \/ pc \in {"send_poll", "send_poll_cfg_esfalg"}
    \/ pc = "sending" /\ nvs # <<>> /\ Head(nvs) # Branch
    \/ pc = "valset" /\ nvs # <<>> /\ pc' # "raise"

\* the last n frames written to the transport
LastSent(n) == SubSeq(sent, Len(sent) - n + 1, Len(sent))

\* send_cmds([MON_VER, NAV_SVIN]) has returned
SendCmdsDone ==
    /\ arg.call = "send_cmds"
    /\ pc = "done"

\* C30: while read_only is set no command writes a byte to the transport
\* or runs the echo decode, and protver keeps its value; while it is clear
\* each call of gps_send writes exactly one frame and nothing else writes,
\* so the frames of a command that calls gps_send several times reach the
\* transport in the order of the calls: send_cmds of the UBX-MON-VER and
\* UBX-NAV-SVIN polls leaves those two frames, in that order, last on the
\* transport.
C30_ReadOnlyWritesNothing ==
    [][/\ read_only =>
            /\ sent' = <<>>
            /\ calls' = 0
            /\ ~echo'
            /\ protver' = DefaultProtver
       /\ ~read_only =>
            /\ Len(sent') = Len(sent) + (IF GpsSending THEN 1 ELSE 0)
            /\ SubSeq(sent', 1, Len(sent)) = sent
            /\ SendCmdsDone' =>
                   /\ Len(sent') >= 2
                   /\ LastSent(2)' = <<<<181, 98, 10, 4, 0, 0, 14, 52>>,
                                       <<181, 98, 1, 59, 0, 0, 60, 181>>>>]_vars

\* with read_only set a session that ended by enabling BINARY, a command of
\* twelve calls of gps_send, wrote nothing and decoded nothing
C30_Witness ==
    /\ read_only
    /\ arg = [call |-> "send_able_binary", able |-> TRUE]
    /\ pc = "done"
    /\ todo = <<>>
    /\ sent = <<>>
    /\ calls = 0
    /\ protver = DefaultProtver
====
